---- MODULE Spec2Model ----
(***************************************************************************)
(* Model of the Carbide front end: the hand-written lexer                  *)
(* (library/carbide_lexer/src/lexer.rs) and the recursive-descent parser   *)
(* (library/carbide_parser/src/parser.rs).                                 *)
(*                                                                         *)
(* Source text is a sequence of UTF-8 bytes.  An ASCII byte is written as  *)
(* the one-character string of its character; the two bytes of the         *)
(* non-ASCII character U+00E9 are written "xC3" and "xA9".  Offsets are    *)
(* 0-based byte offsets as in the source, so the byte at offset p is       *)
(* src[p + 1].                                                             *)
(***************************************************************************)
EXTENDS Integers, Sequences, FiniteSets, TLC

VARIABLES
    frags,      \* the input as the sequence of fragments it was built from
    src,        \* CarbideLexer.src: the input bytes (the fragments, flattened)
    pos,        \* CarbideLexer.pos
    line,       \* CarbideLexer.line
    column,     \* CarbideLexer.column
    tokens,     \* lex(): let mut tokens
    errors,     \* lex(): let mut errors
    pc,         \* "lexing" inside the while loop of lex(), "done" after it returned
    ptokens,    \* CarbideParser.tokens
    ppos,       \* CarbideParser.pos
    ast,        \* parse(): let mut statements
    perrors,    \* parse(): let mut errors
    ppc         \* "idle", "parsing", "done", "aborted"

lexvars == <<frags, src, pos, line, column, tokens, errors, pc>>
parsevars == <<ptokens, ppos, ast, perrors, ppc>>
vars == <<frags, src, pos, line, column, tokens, errors, pc,
          ptokens, ppos, ast, perrors, ppc>>

(***************************************************************************)
(* Characters                                                              *)
(***************************************************************************)
LeadByte == "xC3"
ContByte == "xA9"
NonAsciiChar == "U+00E9"
None == "None"

AsciiLower == {"a","b","c","d","e","f","g","h","i","j","k","l","m",
               "n","o","p","q","r","s","t","u","v","w","x","y","z"}
AsciiUpper == {"A","B","C","D","E","F","G","H","I","J","K","L","M",
               "N","O","P","Q","R","S","T","U","V","W","X","Y","Z"}
AsciiDigits == {"0","1","2","3","4","5","6","7","8","9"}
HexLetters == {"a","b","c","d","e","f","A","B","C","D","E","F"}

is_ascii(ch) == ch # NonAsciiChar /\ ch # LeadByte /\ ch # ContByte
is_ascii_whitespace(ch) == ch \in {" ", "\t", "\n", "\f", "\r"}
is_ascii_alphabetic(ch) == ch \in AsciiLower \cup AsciiUpper
is_ascii_digit(ch) == ch \in AsciiDigits
is_ascii_alphanumeric(ch) == is_ascii_alphabetic(ch) \/ is_ascii_digit(ch)
is_ascii_hexdigit(ch) == ch \in AsciiDigits \cup HexLetters
len_utf8(ch) == IF ch = NonAsciiChar THEN 2 ELSE 1

\* The bytes a character is stored as.
char_bytes(ch) == IF ch = NonAsciiChar THEN <<LeadByte, ContByte>> ELSE <<ch>>

\* A byte offset is a character boundary unless it points at a continuation byte.
is_char_boundary(s, p) ==
    /\ p >= 0
    /\ p <= Len(s)
    /\ (p < Len(s) => s[p + 1] # ContByte)

\* s[p..].chars().next() for p < Len(s)
char_at(s, p) == IF s[p + 1] = LeadByte THEN NonAsciiChar ELSE s[p + 1]

\* &s[a..b], a half-open byte range
slice(s, a, b) == SubSeq(s, a + 1, b)

\* starts_with that compares the first byte of the pattern only
starts_with_first_byte(s, p, pat) ==
    /\ p + Len(pat) <= Len(s)
    /\ s[p + 1] = pat[1]

\* s[p..].starts_with(pat)
starts_with(s, p, pat) ==
    /\ p + Len(pat) <= Len(s)
    /\ slice(s, p, p + Len(pat)) = pat

(***************************************************************************)
(* Keyword, operator and punctuation tables                                *)
(***************************************************************************)
Keywords == {<<"l","e","t">>, <<"f","n">>, <<"r","e","t","u","r","n">>}

keyword_name(s) ==
    IF s = <<"l","e","t">> THEN "Let"
    ELSE IF s = <<"f","n">> THEN "Fn"
    ELSE "Return"

BinaryOperatorTable ==
    { [name |-> "EqEq",  lit |-> <<"=","=">>],
      [name |-> "NotEq", lit |-> <<"!","=">>],
      [name |-> "Eq",    lit |-> <<"=">>] }

UnaryOperatorTable ==
    { [name |-> "Not", lit |-> <<"!">>] }

binary_starts_with(ch) == \E op \in BinaryOperatorTable : op.lit[1] = ch
unary_starts_with(ch) == \E op \in UnaryOperatorTable : op.lit[1] = ch
binary_try_from(s) == {op.name : op \in {o \in BinaryOperatorTable : o.lit = s}}
unary_try_from(s) == {op.name : op \in {o \in UnaryOperatorTable : o.lit = s}}

SingleCharTokens ==
    { [name |-> "LeftParen",    ch |-> "("],
      [name |-> "RightParen",   ch |-> ")"],
      [name |-> "LeftBracket",  ch |-> "["],
      [name |-> "RightBracket", ch |-> "]"],
      [name |-> "LeftBrace",    ch |-> "{"],
      [name |-> "RightBrace",   ch |-> "}"],
      [name |-> "Semicolon",    ch |-> ";"],
      [name |-> "Colon",        ch |-> ":"],
      [name |-> "Period",       ch |-> "."],
      [name |-> "Comma",        ch |-> ","],
      [name |-> "Tilde",        ch |-> "~"] }

tokens_starts_with(ch) == \E t \in SingleCharTokens : t.ch = ch
tokens_from_char(ch) == (CHOOSE t \in SingleCharTokens : t.ch = ch).name

(***************************************************************************)
(* Tokens, locations and diagnostics                                       *)
(***************************************************************************)
SourceLocation(l, c, o) == [line |-> l, column |-> c, offset |-> o]

\* Token { token_type, start, end, span, src }
Token(tag, val, start_loc, end_loc, start, end, text) ==
    [ token_type |-> [tag |-> tag, val |-> val],
      start |-> start_loc,
      end |-> end_loc,
      span |-> [start |-> start, end |-> end],
      src |-> text ]

\* CarbideLexerError anchored at the start of the text whatever its location
LexerError_at_origin(kind, arg, loc) ==
    [kind |-> kind, arg |-> arg, loc |-> [line |-> 1, column |-> 1, offset |-> 0]]

\* CarbideLexerError::<kind>(arg, loc); arg is <<>> for the kinds without one
LexerError(kind, arg, loc) == [kind |-> kind, arg |-> arg, loc |-> loc]

\* Result<Option<Token>, CarbideLexerError> together with the cursor it leaves
Ok(c, toks) == [ok |-> TRUE, c |-> c, tok |-> toks, err |-> <<>>]
Err(c, e) == [ok |-> FALSE, c |-> c, tok |-> <<>>, err |-> <<e>>]

(***************************************************************************)
(* Cursor: [pos, line, column]                                             *)
(***************************************************************************)
Cursor(p, l, c) == [pos |-> p, line |-> l, column |-> c]

current_location(c) == SourceLocation(c.line, c.column, c.pos)

\* is_eof() that takes the last byte for the end of input
is_eof_before_last(s, c) == c.pos + 1 >= Len(s)

is_eof(s, c) == c.pos >= Len(s)

peek(s, c) == IF c.pos >= Len(s) THEN None ELSE char_at(s, c.pos)

\* next() that forgets self.line += 1 at a newline
next_same_line(s, c) ==
    LET ch == peek(s, c) IN
    IF ch = None THEN c
    ELSE IF ch = "\n"
         THEN Cursor(c.pos + len_utf8(ch), c.line, 1)
         ELSE Cursor(c.pos + len_utf8(ch), c.line, c.column + 1)

next(s, c) ==
    LET ch == peek(s, c) IN
    IF ch = None THEN c
    ELSE IF ch = "\n"
         THEN Cursor(c.pos + len_utf8(ch), c.line + 1, 1)
         ELSE Cursor(c.pos + len_utf8(ch), c.line, c.column + 1)

\* Two bytes further, one column further
advance_two_one_column(c) == Cursor(c.pos + 2, c.line, c.column + 1)

\* self.pos += 2; self.column += 2;
advance_two(c) == Cursor(c.pos + 2, c.line, c.column + 2)

\* The closures handed to consume_while, by name.
cond(kind, ch) ==
    CASE kind = "not_newline"  -> ch # "\n"
      [] kind = "hexdigit"     -> is_ascii_hexdigit(ch)
      [] kind = "bindigit"     -> ch = "0" \/ ch = "1"
      [] kind = "ident"        -> is_ascii_alphanumeric(ch) \/ ch = "_"

RECURSIVE consume_while(_, _, _)
consume_while(s, c, kind) ==
    LET ch == peek(s, c) IN
    IF ch # None /\ cond(kind, ch) THEN consume_while(s, next(s, c), kind) ELSE c

(***************************************************************************)
(* Whitespace, comments and error recovery                                 *)
(***************************************************************************)
CommentOpen == <<"/", "*">>
CommentClose == <<"*", "/">>
LineComment == <<"/", "/">>

\* The while loop of skip_nested_comment without depth += 1 at a further '/*'
RECURSIVE flat_comment_loop(_, _, _)
flat_comment_loop(s, c, depth) ==
    IF is_eof(s, c) \/ ~(depth > 0) THEN [c |-> c, depth |-> depth]
    ELSE IF starts_with(s, c.pos, CommentClose)
         THEN flat_comment_loop(s, advance_two(c), depth - 1)
    ELSE flat_comment_loop(s, next(s, c), depth)

\* The while loop of skip_nested_comment; returns the cursor and the depth left.
RECURSIVE nested_comment_loop(_, _, _)
nested_comment_loop(s, c, depth) ==
    IF is_eof(s, c) \/ ~(depth > 0) THEN [c |-> c, depth |-> depth]
    ELSE IF starts_with(s, c.pos, CommentOpen)
         THEN nested_comment_loop(s, advance_two(c), depth + 1)
    ELSE IF starts_with(s, c.pos, CommentClose)
         THEN nested_comment_loop(s, advance_two(c), depth - 1)
    ELSE nested_comment_loop(s, next(s, c), depth)

\* skip_nested_comment() that reports UnclosedComment where it ran out of text
skip_nested_comment_end_location(s, c) ==
    LET r == nested_comment_loop(s, advance_two(c), 1)
    IN  IF r.depth > 0
        THEN Err(r.c, LexerError("UnclosedComment", <<>>, current_location(r.c)))
        ELSE Ok(r.c, <<>>)

skip_nested_comment(s, c) ==
    LET start_loc == current_location(c)
        r == nested_comment_loop(s, advance_two(c), 1)
    IN  IF r.depth > 0
        THEN Err(r.c, LexerError("UnclosedComment", <<>>, start_loc))
        ELSE Ok(r.c, <<>>)

RECURSIVE skip_whitespace_and_comments(_, _)
skip_whitespace_and_comments(s, c) ==
    LET ch == peek(s, c) IN
    IF ch # None /\ is_ascii_whitespace(ch)
    THEN skip_whitespace_and_comments(s, next(s, c))
    ELSE IF starts_with(s, c.pos, LineComment)
    THEN skip_whitespace_and_comments(s, consume_while(s, advance_two(c), "not_newline"))
    ELSE IF starts_with(s, c.pos, CommentOpen)
    THEN LET r == skip_nested_comment(s, c) IN
         IF r.ok THEN skip_whitespace_and_comments(s, r.c) ELSE r
    ELSE Ok(c, <<>>)

\* The characters at which recover_from_error stops skipping.
is_recovery_stop(ch) ==
    \/ is_ascii_whitespace(ch)
    \/ is_ascii_alphabetic(ch)
    \/ ch = "_"
    \/ is_ascii_digit(ch)
    \/ binary_starts_with(ch)
    \/ unary_starts_with(ch)
    \/ tokens_starts_with(ch)
    \/ ch = "/"

\* Recovery that skips nothing after its first character
recover_skip_none(s, c) == c

RECURSIVE recover_skip(_, _)
recover_skip(s, c) ==
    LET ch == peek(s, c) IN
    IF ch = None \/ is_recovery_stop(ch) THEN c ELSE recover_skip(s, next(s, c))

\* recover_from_error() without its leading self.next()
recover_without_next(s, c) == recover_skip(s, c)

recover_from_error(s, c) == recover_skip(s, next(s, c))

(***************************************************************************)
(* Numbers.  An i64 value is carried as its binary digits, most            *)
(* significant first, without leading zeros (0 is the empty sequence), so  *)
(* that the 63-bit limit of i64 is exact.                                  *)
(***************************************************************************)
I64Bits == 63

digit_value(ch) ==
    CASE ch = "0" -> 0 [] ch = "1" -> 1 [] ch = "2" -> 2 [] ch = "3" -> 3
      [] ch = "4" -> 4 [] ch = "5" -> 5 [] ch = "6" -> 6 [] ch = "7" -> 7
      [] ch = "8" -> 8 [] ch = "9" -> 9
      [] ch \in {"a", "A"} -> 10 [] ch \in {"b", "B"} -> 11
      [] ch \in {"c", "C"} -> 12 [] ch \in {"d", "D"} -> 13
      [] ch \in {"e", "E"} -> 14 [] ch \in {"f", "F"} -> 15

bit_char(n) == IF n = 0 THEN "0" ELSE "1"

RECURSIVE strip_zeros(_)
strip_zeros(d) ==
    IF d # <<>> /\ Head(d) = "0" THEN strip_zeros(Tail(d)) ELSE d

nibble(n) ==
    << bit_char(n \div 8), bit_char((n \div 4) % 2),
       bit_char((n \div 2) % 2), bit_char(n % 2) >>

RECURSIVE hex_bits(_)
hex_bits(d) == IF d = <<>> THEN <<>> ELSE nibble(digit_value(Head(d))) \o hex_bits(Tail(d))

\* One long division of a decimal digit sequence by two: quotient and remainder.
RECURSIVE halve(_, _)
halve(d, carry) ==
    IF d = <<>> THEN [q |-> <<>>, r |-> carry]
    ELSE LET v == carry * 10 + digit_value(Head(d))
             rest == halve(Tail(d), v % 2)
         IN  [q |-> <<CHOOSE ch \in AsciiDigits : digit_value(ch) = v \div 2>> \o rest.q,
              r |-> rest.r]

RECURSIVE dec_bits(_)
dec_bits(d) ==
    LET n == strip_zeros(d) IN
    IF n = <<>> THEN <<>>
    ELSE LET h == halve(n, 0) IN dec_bits(h.q) \o <<bit_char(h.r)>>

\* A parse that accepts one more bit than i64 holds
parse_i64_one_more_bit(digits, radix) ==
    LET bits == CASE radix = 16 -> strip_zeros(hex_bits(digits))
                  [] radix = 2  -> strip_zeros(digits)
                  [] radix = 10 -> dec_bits(digits)
    IN  IF Len(bits) <= I64Bits + 1 THEN {bits} ELSE {}

\* i64::from_str_radix / str::parse::<i64> on a run of digits of the radix:
\* the value when it fits, the empty set on overflow.
parse_i64(digits, radix) ==
    LET bits == CASE radix = 16 -> strip_zeros(hex_bits(digits))
                  [] radix = 2  -> strip_zeros(digits)
                  [] radix = 10 -> dec_bits(digits)
    IN  IF Len(bits) <= I64Bits THEN {bits} ELSE {}

\* str::parse::<f64> on digits with one '.': the decimal number the text spells,
\* carried as its integer digits without leading zeros and its fraction digits
\* without trailing zeros (exact for the short literals lexed here).
parse_f64(text) ==
    LET dot == CHOOSE i \in 1..Len(text) : text[i] = "."
        fraction == SubSeq(text, dot + 1, Len(text))
        last_digit == CHOOSE k \in 0..Len(fraction) :
                          /\ k = 0 \/ fraction[k] # "0"
                          /\ \A j \in (k + 1)..Len(fraction) : fraction[j] = "0"
    IN  [int |-> strip_zeros(SubSeq(text, 1, dot - 1)),
         frac |-> SubSeq(fraction, 1, last_digit)]

\* The closure that lets every '.' through
RECURSIVE number_loop_any_dots(_, _, _)
number_loop_any_dots(s, c, has_dot) ==
    LET ch == peek(s, c) IN
    IF ch = None THEN [c |-> c, has_dot |-> has_dot]
    ELSE IF ch = "." THEN number_loop_any_dots(s, next(s, c), TRUE)
    ELSE IF is_ascii_digit(ch) THEN number_loop_any_dots(s, next(s, c), has_dot)
    ELSE [c |-> c, has_dot |-> has_dot]

\* The closure of lex_number's consume_while: digits and at most one '.'.
RECURSIVE number_loop(_, _, _)
number_loop(s, c, has_dot) ==
    LET ch == peek(s, c) IN
    IF ch = None THEN [c |-> c, has_dot |-> has_dot]
    ELSE IF ch = "."
         THEN IF has_dot THEN [c |-> c, has_dot |-> has_dot]
              ELSE number_loop(s, next(s, c), TRUE)
    ELSE IF is_ascii_digit(ch) THEN number_loop(s, next(s, c), has_dot)
    ELSE [c |-> c, has_dot |-> has_dot]

\* The 0x and 0b branches that read an empty run of digits as 0
lex_prefixed_empty_is_zero(s, c, start, start_loc, kind, radix, tag, errkind, prefix) ==
    LET c1 == advance_two(c)
        c2 == consume_while(s, c1, kind)
        digits == slice(s, c1.pos, c2.pos)
        v == parse_i64(digits, radix)
    IN  IF v = {}
        THEN Err(c2, LexerError(errkind, digits, start_loc))
        ELSE Ok(c2, <<Token(tag, CHOOSE b \in v : TRUE, start_loc, current_location(c2),
                            start, c2.pos, slice(s, start, c2.pos))>>)

\* The 0x and 0b branches of lex_number.
lex_prefixed(s, c, start, start_loc, kind, radix, tag, errkind, prefix) ==
    LET c1 == advance_two(c)
        digits_start == c1.pos
        c2 == consume_while(s, c1, kind)
        end == c2.pos
        end_loc == current_location(c2)
        text == slice(s, start, end)
        digits == slice(s, digits_start, c2.pos)
        v == parse_i64(digits, radix)
    IN  IF digits = <<>>
        THEN Err(c2, LexerError(errkind, prefix, start_loc))
        ELSE IF v = {}
        THEN Err(c2, LexerError(errkind, digits, start_loc))
        ELSE Ok(c2, <<Token(tag, CHOOSE b \in v : TRUE, start_loc, end_loc, start, end, text)>>)

lex_number(s, c, start, start_loc) ==
    IF starts_with(s, c.pos, <<"0", "x">>)
    THEN lex_prefixed(s, c, start, start_loc, "hexdigit", 16, "HexLiteral",
                      "InvalidHexLiteral", <<"0", "x">>)
    ELSE IF starts_with(s, c.pos, <<"0", "b">>)
    THEN lex_prefixed(s, c, start, start_loc, "bindigit", 2, "BinaryLiteral",
                      "InvalidBinaryLiteral", <<"0", "b">>)
    ELSE LET r == number_loop(s, c, FALSE)
             end == r.c.pos
             end_loc == current_location(r.c)
             text == slice(s, start, end)
             v == parse_i64(text, 10)
         IN  IF r.has_dot
             \* str::parse::<f64> accepts every digits-with-one-dot text that
             \* starts with a digit.
             THEN Ok(r.c, <<Token("FloatLiteral", parse_f64(text), start_loc, end_loc, start, end, text)>>)
             ELSE IF v = {}
             THEN Err(r.c, LexerError("InvalidIntegerLiteral", text, start_loc))
             ELSE Ok(r.c, <<Token("IntLiteral", CHOOSE b \in v : TRUE,
                                  start_loc, end_loc, start, end, text)>>)

(***************************************************************************)
(* Identifiers, operators, punctuation                                     *)
(***************************************************************************)
lex_identifier(s, c, start, start_loc) ==
    LET c1 == consume_while(s, c, "ident")
        end == c1.pos
        end_loc == current_location(c1)
        text == slice(s, start, end)
    IN  IF text \in Keywords
        THEN Ok(c1, <<Token("Keyword", <<keyword_name(text)>>, start_loc, end_loc, start, end, text)>>)
        ELSE Ok(c1, <<Token("Identifier", text, start_loc, end_loc, start, end, text)>>)

\* lex_operator() that tries the one-character spelling first
lex_operator_shortest(s, c, start, start_loc) ==
    LET first_ch == peek(s, c)
        c1 == next(s, c)
        text1 == slice(s, start, c1.pos)
    IN  IF first_ch = None
        THEN Err(c, LexerError("UnexpectedEOF", <<>>, start_loc))
        ELSE IF binary_try_from(text1) # {}
        THEN Ok(c1, <<Token("BinaryOperator", <<CHOOSE n \in binary_try_from(text1) : TRUE>>,
                            start_loc, current_location(c1), start, c1.pos, text1)>>)
        ELSE IF unary_try_from(text1) # {}
        THEN Ok(c1, <<Token("UnaryOperator", <<CHOOSE n \in unary_try_from(text1) : TRUE>>,
                            start_loc, current_location(c1), start, c1.pos, text1)>>)
        ELSE Err(c1, LexerError("UnexpectedChar", <<first_ch>>, start_loc))

lex_operator(s, c, start, start_loc) ==
    LET first_ch == peek(s, c)
        c1 == next(s, c)
        second_ch == peek(s, c1)
        two_char_start == c1.pos - len_utf8(first_ch)
        two_char_slice == slice(s, two_char_start, c1.pos + len_utf8(second_ch))
        c2 == next(s, c1)
        text2 == slice(s, start, c2.pos)
        text1 == slice(s, start, c1.pos)
    IN  IF first_ch = None
        THEN Err(c, LexerError("UnexpectedEOF", <<>>, start_loc))
        ELSE IF second_ch # None /\ binary_try_from(two_char_slice) # {}
        THEN Ok(c2, <<Token("BinaryOperator", <<CHOOSE n \in binary_try_from(text2) : TRUE>>,
                            start_loc, current_location(c2), start, c2.pos, text2)>>)
        ELSE IF second_ch # None /\ unary_try_from(two_char_slice) # {}
        THEN Ok(c2, <<Token("UnaryOperator", <<CHOOSE n \in unary_try_from(text2) : TRUE>>,
                            start_loc, current_location(c2), start, c2.pos, text2)>>)
        ELSE IF binary_try_from(text1) # {}
        THEN Ok(c1, <<Token("BinaryOperator", <<CHOOSE n \in binary_try_from(text1) : TRUE>>,
                            start_loc, current_location(c1), start, c1.pos, text1)>>)
        ELSE IF unary_try_from(text1) # {}
        THEN Ok(c1, <<Token("UnaryOperator", <<CHOOSE n \in unary_try_from(text1) : TRUE>>,
                            start_loc, current_location(c1), start, c1.pos, text1)>>)
        ELSE Err(c1, LexerError("UnexpectedChar", <<first_ch>>, start_loc))

\* Ok with no token stands for Ok(None).
lex_single_char(s, c, start, start_loc) ==
    LET ch == peek(s, c)
        c1 == next(s, c)
    IN  IF ch # None /\ tokens_starts_with(ch)
        THEN Ok(c1, <<Token(tokens_from_char(ch), <<>>, start_loc, current_location(c1),
                            start, c1.pos, slice(s, start, c1.pos))>>)
        ELSE Ok(c, <<>>)

(***************************************************************************)
(* Strings                                                                 *)
(***************************************************************************)
TextPart(s) == [kind |-> "Text", s |-> s]
InterpolationPart(s) == [kind |-> "Interpolation", s |-> s]

\* The decoding that drops the backslash of an escape it does not know
unescape_char_drop_backslash(ch) ==
    CASE ch = "n"  -> <<"\n">>
      [] ch = "t"  -> <<"\t">>
      [] ch = "r"  -> <<"\r">>
      [] ch = "\\" -> <<"\\">>
      [] ch = "\"" -> <<"\"">>
      [] ch = "'"  -> <<"'">>
      [] ch = "0"  -> <<"NUL">>
      [] OTHER     -> char_bytes(ch)

\* What one escape sequence \<ch> decodes to.
unescape_char(ch) ==
    CASE ch = "n"  -> <<"\n">>
      [] ch = "t"  -> <<"\t">>
      [] ch = "r"  -> <<"\r">>
      [] ch = "\\" -> <<"\\">>
      [] ch = "\"" -> <<"\"">>
      [] ch = "'"  -> <<"'">>
      [] ch = "0"  -> <<"NUL">>
      [] OTHER     -> <<"\\">> \o char_bytes(ch)

RECURSIVE unescape_string(_, _)
unescape_string(raw, p) ==
    IF p >= Len(raw) THEN <<>>
    ELSE LET ch == char_at(raw, p)
             q == p + len_utf8(ch)
         IN  IF ch = "\\"
             THEN IF q >= Len(raw) THEN <<"\\">>
                  ELSE LET next_ch == char_at(raw, q) IN
                       unescape_char(next_ch) \o unescape_string(raw, q + len_utf8(next_ch))
             ELSE char_bytes(ch) \o unescape_string(raw, q)

\* The inner loop that finds the end of a text run (the next unescaped '{').
RECURSIVE text_run_end(_, _, _)
text_run_end(bytes, text_end, in_escape) ==
    IF ~(text_end < Len(bytes)) THEN text_end
    ELSE IF in_escape THEN text_run_end(bytes, text_end + 1, FALSE)
    ELSE IF bytes[text_end + 1] = "\\" THEN text_run_end(bytes, text_end + 1, TRUE)
    ELSE IF bytes[text_end + 1] = "{" THEN text_end
    ELSE text_run_end(bytes, text_end + 1, FALSE)

\* The loop for the matching '}' that does not count a further '{'
RECURSIVE brace_loop_flat(_, _, _)
brace_loop_flat(bytes, text_end, brace_depth) ==
    IF ~(text_end < Len(bytes) /\ brace_depth > 0)
    THEN [text_end |-> text_end, brace_depth |-> brace_depth]
    ELSE LET d == IF bytes[text_end + 1] = "}" THEN brace_depth - 1 ELSE brace_depth
         IN  brace_loop_flat(bytes, IF d > 0 THEN text_end + 1 ELSE text_end, d)

\* The inner loop that finds the '}' matching an opened '{'.
RECURSIVE brace_loop(_, _, _)
brace_loop(bytes, text_end, brace_depth) ==
    IF ~(text_end < Len(bytes) /\ brace_depth > 0)
    THEN [text_end |-> text_end, brace_depth |-> brace_depth]
    ELSE LET d == IF bytes[text_end + 1] = "{" THEN brace_depth + 1
                  ELSE IF bytes[text_end + 1] = "}" THEN brace_depth - 1
                  ELSE brace_depth
         IN  brace_loop(bytes, IF d > 0 THEN text_end + 1 ELSE text_end, d)

\* The loop of lex_interpolated_string that takes the rest of the text as the
\* last interpolation when a '{' is never matched
RECURSIVE interpolated_loop_lenient(_, _, _)
interpolated_loop_lenient(raw, current, parts) ==
    IF ~(current < Len(raw)) THEN [ok |-> TRUE, parts |-> parts]
    ELSE LET text_end == text_run_end(raw, current, FALSE)
             unescaped == unescape_string(slice(raw, current, text_end), 0)
             parts1 == IF text_end > current /\ unescaped # <<>>
                       THEN Append(parts, TextPart(unescaped))
                       ELSE parts
             b == brace_loop(raw, text_end + 1, 1)
         IN  IF text_end >= Len(raw) THEN [ok |-> TRUE, parts |-> parts1]
             ELSE interpolated_loop_lenient(raw, b.text_end + 1,
                      Append(parts1, InterpolationPart(slice(raw, text_end + 1, b.text_end))))

\* Returns [ok, parts]; not ok stands for Err(UnmatchedBrace(loc)).
RECURSIVE interpolated_loop(_, _, _)
interpolated_loop(raw, current, parts) ==
    IF ~(current < Len(raw)) THEN [ok |-> TRUE, parts |-> parts]
    ELSE LET text_end == text_run_end(raw, current, FALSE)
             unescaped == unescape_string(slice(raw, current, text_end), 0)
             parts1 == IF text_end > current /\ unescaped # <<>>
                       THEN Append(parts, TextPart(unescaped))
                       ELSE parts
             b == brace_loop(raw, text_end + 1, 1)
         IN  IF text_end >= Len(raw) THEN [ok |-> TRUE, parts |-> parts1]
             ELSE IF b.brace_depth # 0 THEN [ok |-> FALSE, parts |-> parts1]
             ELSE interpolated_loop(raw, b.text_end + 1,
                      Append(parts1, InterpolationPart(slice(raw, text_end + 1, b.text_end))))

lex_interpolated_string(raw) == interpolated_loop(raw, 0, <<>>)

\* The loop of lex_string without the branch for '\\': a quote after a
\* backslash closes the string
RECURSIVE string_loop_no_escape(_, _, _)
string_loop_no_escape(s, c, has_interpolation) ==
    LET ch == peek(s, c) IN
    IF is_eof(s, c) THEN [closed |-> FALSE, c |-> c, has_interpolation |-> has_interpolation]
    ELSE IF ch = "\"" THEN [closed |-> TRUE, c |-> c, has_interpolation |-> has_interpolation]
    ELSE IF ch = "{" THEN string_loop_no_escape(s, next(s, c), TRUE)
    ELSE string_loop_no_escape(s, next(s, c), has_interpolation)

\* The loop of lex_string that looks for the closing quote.
RECURSIVE string_loop(_, _, _)
string_loop(s, c, has_interpolation) ==
    LET ch == peek(s, c) IN
    IF is_eof(s, c) THEN [closed |-> FALSE, c |-> c, has_interpolation |-> has_interpolation]
    ELSE IF ch = "\"" THEN [closed |-> TRUE, c |-> c, has_interpolation |-> has_interpolation]
    ELSE IF ch = "\\"
         THEN LET c1 == next(s, c) IN
              string_loop(s, IF ~is_eof(s, c1) THEN next(s, c1) ELSE c1, has_interpolation)
    ELSE IF ch = "{" THEN string_loop(s, next(s, c), TRUE)
    ELSE string_loop(s, next(s, c), has_interpolation)

\* lex_string() that hands out raw_string, the text between the quotes, as src
lex_string_raw_src(s, c, start, start_loc) ==
    LET c1 == next(s, c)
        string_start == c1.pos
        r == string_loop(s, c1, FALSE)
        raw_string == slice(s, string_start, r.c.pos)
        c2 == next(s, r.c)
        end == c2.pos
        end_loc == current_location(c2)
        parts == lex_interpolated_string(raw_string)
    IN  IF peek(s, c) # "\"" THEN Ok(c, <<>>)
        ELSE IF ~r.closed THEN Err(r.c, LexerError("UnclosedString", <<>>, start_loc))
        ELSE IF r.has_interpolation
        THEN IF parts.ok
             THEN Ok(c2, <<Token("InterpolatedString", parts.parts,
                                 start_loc, end_loc, start, end, raw_string)>>)
             ELSE Err(c2, LexerError("UnmatchedBrace", <<>>, start_loc))
        ELSE Ok(c2, <<Token("StringLiteral", unescape_string(raw_string, 0),
                            start_loc, end_loc, start, end, raw_string)>>)

lex_string(s, c, start, start_loc) ==
    LET c1 == next(s, c)
        string_start == c1.pos
        r == string_loop(s, c1, FALSE)
        raw_string == slice(s, string_start, r.c.pos)
        c2 == next(s, r.c)
        end == c2.pos
        end_loc == current_location(c2)
        full_slice == slice(s, start, end)
        parts == lex_interpolated_string(raw_string)
    IN  IF peek(s, c) # "\"" THEN Ok(c, <<>>)
        ELSE IF ~r.closed THEN Err(r.c, LexerError("UnclosedString", <<>>, start_loc))
        ELSE IF r.has_interpolation
        THEN IF parts.ok
             THEN Ok(c2, <<Token("InterpolatedString", parts.parts,
                                 start_loc, end_loc, start, end, full_slice)>>)
             ELSE Err(c2, LexerError("UnmatchedBrace", <<>>, start_loc))
        ELSE Ok(c2, <<Token("StringLiteral", unescape_string(raw_string, 0),
                            start_loc, end_loc, start, end, full_slice)>>)

(***************************************************************************)
(* lex(): one pass through the body of its while loop                      *)
(***************************************************************************)
\* What a pass does to the lexer: the branch it took, the cursor it leaves, the
\* token or the error it pushed, and the cursor at which recovery started.
Step(branch, c, toks, errs, at) ==
    [branch |-> branch, c |-> c, toks |-> toks, errs |-> errs, at |-> at]

\* match self.lex_x(..) { Ok(token) => push, Err(e) => { push; recover } }
dispatch(branch, s, r) ==
    IF r.ok THEN Step(branch, r.c, r.tok, <<>>, r.c)
    ELSE Step(branch, recover_from_error(s, r.c), <<>>, r.err, r.c)

\* The pass from the cursor c that skip_whitespace_and_comments() left.
lex_token(s, c) ==
    LET start == c.pos
        start_loc == current_location(c)
        ch == peek(s, c)
    IN  IF is_eof(s, c) THEN Step("break", c, <<>>, <<>>, c)
        ELSE IF ~is_ascii(ch)
        THEN Step("non_ascii", recover_from_error(s, c), <<>>,
                  <<LexerError("NonASCIIChar", <<ch>>, start_loc)>>, c)
        ELSE IF is_ascii_alphabetic(ch) \/ ch = "_"
        THEN dispatch("identifier", s, lex_identifier(s, c, start, start_loc))
        ELSE IF ch = "\""
        THEN dispatch("string", s, lex_string(s, c, start, start_loc))
        ELSE IF is_ascii_digit(ch)
        THEN dispatch("number", s, lex_number(s, c, start, start_loc))
        ELSE IF binary_starts_with(ch) \/ unary_starts_with(ch)
        THEN dispatch("operator", s, lex_operator(s, c, start, start_loc))
        ELSE LET r == lex_single_char(s, c, start, start_loc) IN
             IF r.tok # <<>> THEN dispatch("single_char", s, r)
             ELSE Step("unexpected_char", recover_from_error(s, c), <<>>,
                       <<LexerError("UnexpectedChar", <<ch>>, start_loc)>>, c)

\* if let Err(e) = self.skip_whitespace_and_comments() { push; recover; continue; }
after_skip(s, sk) ==
    IF ~sk.ok THEN Step("skip_error", recover_from_error(s, sk.c), <<>>, sk.err, sk.c)
    ELSE lex_token(s, sk.c)

lex_pass(s, c0) == after_skip(s, skip_whitespace_and_comments(s, c0))

\* lex() from a cursor to its return: LexResult { tokens, errors } and the cursor left.
RECURSIVE lex_loop(_, _, _, _)
RECURSIVE lex_continue(_, _, _, _)
lex_loop(s, c, toks, errs) ==
    IF is_eof(s, c) THEN [tokens |-> toks, errors |-> errs, c |-> c]
    ELSE lex_continue(s, lex_pass(s, c), toks, errs)

\* After the pass st: break leaves the loop, anything else goes round again.
lex_continue(s, st, toks, errs) ==
    IF st.branch = "break" THEN [tokens |-> toks, errors |-> errs, c |-> st.c]
    ELSE lex_loop(s, st.c, toks \o st.toks, errs \o st.errs)

\* CarbideLexer::from_src(s).lex()
lex(s) == lex_loop(s, Cursor(0, 1, 1), <<>>, <<>>)

\* lex_strict() that fails with the last diagnostic
strict_last_error(result) ==
    IF result.errors # <<>>
    THEN [ok |-> FALSE, tokens |-> <<>>, err |-> <<result.errors[Len(result.errors)]>>]
    ELSE [ok |-> TRUE, tokens |-> result.tokens, err |-> <<>>]

\* CarbideLexer::from_src(s).lex_strict(): [ok, tokens, err]
strict(result) ==
    IF result.errors # <<>>
    THEN [ok |-> FALSE, tokens |-> <<>>, err |-> <<Head(result.errors)>>]
    ELSE [ok |-> TRUE, tokens |-> result.tokens, err |-> <<>>]

lex_strict(s) == strict(lex(s))

(***************************************************************************)
(* Parser.  The parser's state is the token list ts and the position p     *)
(* (0-based; the current token is ts[p + 1]).  Every parsing function      *)
(* returns what it did to the position together with its Result:           *)
(*   st = "ok":    Ok(val), the position after it                          *)
(*   st = "err":   Err(err), the position where it gave up                 *)
(*   st = "abort": the process did not survive the call                    *)
(* Two places have undefined behaviour: last() computes pos - 1 on a usize *)
(* and unwraps tokens.get() unchecked, and parse_function_declaration      *)
(* unwraps peek() unchecked.  ub names what the build makes of it: "abort" *)
(* (the overflow check of a debug build, or a fault), or "garbage" (the    *)
(* wrapped index and the unchecked unwrap yield an arbitrary value).       *)
(***************************************************************************)
UBOutcomes == {"abort", "garbage"}
GarbageLocation == SourceLocation(0, 0, 0)
GarbageToken == Token("Garbage", <<>>, GarbageLocation, GarbageLocation, 0, 0, <<>>)

POk(p, val) == [st |-> "ok", pos |-> p, val |-> val, err |-> <<>>]
PErr(p, e) == [st |-> "err", pos |-> p, val |-> <<>>, err |-> <<e>>]
PAbort(p) == [st |-> "abort", pos |-> p, val |-> <<>>, err |-> <<>>]

\* CarbideParserError; found and loc hold at most one element
ParserError(kind, expected, found, loc) ==
    [kind |-> kind, expected |-> expected, found |-> found, loc |-> loc]

parser_is_eof(ts, p) == p >= Len(ts)

\* Option<&Token> as a sequence of at most one token
parser_peek(ts, p) == IF p < Len(ts) THEN <<ts[p + 1]>> ELSE <<>>

\* self.tokens.get(self.pos - 1); only defined for p >= 1
last(ts, p) == IF p - 1 < Len(ts) THEN <<ts[p]>> ELSE <<>>

\* self.pos += 1 when there is a token
advance(ts, p) == IF p < Len(ts) THEN p + 1 ELSE p

\* The patterns handed to check, match_token and expect, by name.
matches(tt, pat) ==
    CASE pat \in {"Let", "Fn", "Return"} -> tt.tag = "Keyword" /\ tt.val = <<pat>>
      [] pat = "Eq" -> tt.tag = "BinaryOperator" /\ tt.val = <<"Eq">>
      [] OTHER -> tt.tag = pat

check(ts, p, pat) == p < Len(ts) /\ matches(ts[p + 1].token_type, pat)

\* current_location(): map_or evaluates its default, last().unwrap_unchecked().end,
\* before it looks at peek().  [abort, loc]
parser_current_location(ts, p, ub) ==
    IF p = 0
    THEN IF ub = "abort" THEN [abort |-> TRUE, loc |-> GarbageLocation]
         ELSE [abort |-> FALSE,
               loc |-> IF p < Len(ts) THEN ts[p + 1].end ELSE GarbageLocation]
    ELSE [abort |-> FALSE,
          loc |-> IF p < Len(ts) THEN ts[p + 1].end ELSE last(ts, p)[1].end]

\* Err(Box::new(CarbideParserError::<kind>(self.current_location())))
located_error(ts, p, kind, ub) ==
    LET l == parser_current_location(ts, p, ub) IN
    IF l.abort THEN PAbort(p) ELSE PErr(p, ParserError(kind, "", <<>>, <<l.loc>>))

unexpected_token(ts, p, expected) ==
    PErr(p, ParserError("UnexpectedToken", expected, <<ts[p + 1]>>, <<>>))

expect(ts, p, pat, expected, ub) ==
    IF p < Len(ts)
    THEN IF matches(ts[p + 1].token_type, pat)
         THEN POk(p + 1, ts[p + 1])
         ELSE unexpected_token(ts, p, expected)
    ELSE located_error(ts, p, "UnexpectedEOF", ub)

is_statement_keyword(t) ==
    t.token_type.tag = "Keyword" /\ t.token_type.val \in {<<"Fn">>, <<"Let">>, <<"Return">>}

RECURSIVE synchronize_loop(_, _)
synchronize_loop(ts, p) ==
    IF parser_is_eof(ts, p) THEN p
    ELSE IF ts[(IF p >= 1 THEN p - 1 ELSE 0) + 1].token_type.tag = "Semicolon" THEN p
    ELSE IF is_statement_keyword(ts[p + 1]) THEN p
    ELSE synchronize_loop(ts, advance(ts, p))

\* synchronize() that does not advance before it looks for a place to stop
synchronize_in_place(ts, p) == synchronize_loop(ts, p)

synchronize(ts, p) == synchronize_loop(ts, advance(ts, p))

RECURSIVE parse_type(_, _, _)
parse_type(ts, p, ub) ==
    IF p < Len(ts)
    THEN LET tt == ts[p + 1].token_type IN
         IF tt.tag \in {"TypeIdentifier", "Identifier"}
         THEN POk(p + 1, [type |-> "Named", name |-> tt.val])
         ELSE IF tt.tag = "LeftBracket"
         THEN LET e == parse_type(ts, p + 1, ub)
                  r == expect(ts, e.pos, "RightBracket", "]", ub)
              IN  IF e.st # "ok" THEN e
                  ELSE IF r.st # "ok" THEN r
                  ELSE POk(r.pos, [type |-> "Array", element |-> e.val])
         ELSE unexpected_token(ts, p, "type")
    ELSE located_error(ts, p, "UnexpectedEOF", ub)

\* if self.match_token(Colon) { Some(self.parse_type()?) } else { None }
Some(r) == IF r.st # "ok" THEN r ELSE POk(r.pos, <<r.val>>)

optional_type(ts, p, pat, ub) ==
    IF check(ts, p, pat) THEN Some(parse_type(ts, p + 1, ub)) ELSE POk(p, <<>>)

RECURSIVE descend(_, _, _, _)
RECURSIVE parse_statement(_, _, _)
RECURSIVE parse_let_statement(_, _, _)
RECURSIVE parse_block_statement(_, _, _)
RECURSIVE block_loop(_, _, _, _)
RECURSIVE parse_expression_statement(_, _, _)
RECURSIVE parse_expression(_, _, _)
RECURSIVE parse_assignment(_, _, _)
RECURSIVE parse_equality(_, _, _)
RECURSIVE equality_loop(_, _, _, _)
RECURSIVE parse_comparison(_, _, _)
RECURSIVE parse_term(_, _, _)
RECURSIVE term_loop(_, _, _, _)
RECURSIVE parse_factor(_, _, _)
RECURSIVE factor_loop(_, _, _, _)
RECURSIVE parse_unary(_, _, _)
RECURSIVE parse_function_declaration(_, _, _)
RECURSIVE parameter_loop(_, _, _, _)
RECURSIVE parse_call(_, _, _)
RECURSIVE call_loop(_, _, _, _)
RECURSIVE finish_call(_, _, _, _)
RECURSIVE expression_list(_, _, _, _)
RECURSIVE parse_primary(_, _, _)
RECURSIVE parse_interpolation(_, _, _, _)
RECURSIVE parse_interpolated_string(_, _, _, _, _, _)
RECURSIVE push_expression(_, _, _, _, _, _, _)
RECURSIVE parse_return(_, _, _)

parse_statement(ts, p, ub) ==
    IF p < Len(ts)
    THEN LET tt == ts[p + 1].token_type IN
         IF matches(tt, "Let") THEN descend("parse_let_statement", ts, p, ub)
         ELSE IF matches(tt, "Fn") THEN descend("parse_function_declaration", ts, p, ub)
         ELSE IF matches(tt, "Return") THEN descend("parse_return", ts, p, ub)
         ELSE IF tt.tag = "LeftBrace" THEN descend("parse_block_statement", ts, p, ub)
         ELSE descend("parse_expression_statement", ts, p, ub)
    ELSE located_error(ts, p, "UnexpectedEOF", ub)

\* parse_let_statement that takes the ';' only when it is there
parse_let_statement_optional_semicolon(ts, p, ub) ==
    LET kw == expect(ts, p, "Let", "let", ub)
        name_token == expect(ts, kw.pos, "Identifier", "identifier", ub)
        type_annotation == optional_type(ts, name_token.pos, "Colon", ub)
        has_eq == check(ts, type_annotation.pos, "Eq")
        init == descend("parse_expression", ts, type_annotation.pos + 1, ub)
        after == IF has_eq THEN init.pos ELSE type_annotation.pos
    IN  IF kw.st # "ok" THEN kw
        ELSE IF name_token.st # "ok" THEN name_token
        ELSE IF type_annotation.st # "ok" THEN type_annotation
        ELSE IF has_eq /\ init.st = "abort" THEN init
        ELSE IF has_eq /\ init.st = "err"
        THEN located_error(ts, init.pos, "InvalidAssignmentTarget", ub)
        ELSE POk(IF check(ts, after, "Semicolon") THEN after + 1 ELSE after,
                 [node |-> "LetDeclaration",
                  name |-> name_token.val.token_type.val,
                  type_annotation |-> type_annotation.val,
                  initializer |-> IF has_eq THEN <<init.val>> ELSE <<>>])

parse_let_statement(ts, p, ub) ==
    LET kw == expect(ts, p, "Let", "let", ub)
        name_token == expect(ts, kw.pos, "Identifier", "identifier", ub)
        type_annotation == optional_type(ts, name_token.pos, "Colon", ub)
        has_eq == check(ts, type_annotation.pos, "Eq")
        init == descend("parse_expression", ts, type_annotation.pos + 1, ub)
        after == IF has_eq THEN init.pos ELSE type_annotation.pos
        semi == expect(ts, after, "Semicolon", ";", ub)
    IN  IF kw.st # "ok" THEN kw
        ELSE IF name_token.st # "ok" THEN name_token
        ELSE IF type_annotation.st # "ok" THEN type_annotation
        ELSE IF has_eq /\ init.st = "abort" THEN init
        ELSE IF has_eq /\ init.st = "err"
        THEN located_error(ts, init.pos, "InvalidAssignmentTarget", ub)
        ELSE IF semi.st # "ok" THEN semi
        ELSE POk(semi.pos, [node |-> "LetDeclaration",
                            name |-> name_token.val.token_type.val,
                            type_annotation |-> type_annotation.val,
                            initializer |-> IF has_eq THEN <<init.val>> ELSE <<>>])

\* while !self.is_eof() && !self.check(RightBrace) { statements.push(self.parse_statement()?) }
block_loop(ts, p, statements, ub) ==
    IF ~parser_is_eof(ts, p) /\ ~check(ts, p, "RightBrace")
    THEN LET r == descend("parse_statement", ts, p, ub) IN
         IF r.st # "ok" THEN r ELSE block_loop(ts, r.pos, Append(statements, r.val), ub)
    ELSE POk(p, statements)

parse_block_statement(ts, p, ub) ==
    LET open == expect(ts, p, "LeftBrace", "{", ub)
        body == block_loop(ts, open.pos, <<>>, ub)
        close == expect(ts, body.pos, "RightBrace", "}", ub)
    IN  IF open.st # "ok" THEN open
        ELSE IF body.st # "ok" THEN body
        ELSE IF close.st # "ok" THEN close
        ELSE POk(close.pos, [node |-> "Block", statements |-> body.val])

parse_expression_statement(ts, p, ub) ==
    LET expr == descend("parse_expression", ts, p, ub)
        semi == expect(ts, expr.pos, "Semicolon", ";", ub)
    IN  IF expr.st # "ok" THEN expr
        ELSE IF semi.st # "ok" THEN semi
        ELSE POk(semi.pos, [node |-> "Expression", expr |-> expr.val])

parse_expression(ts, p, ub) == descend("parse_assignment", ts, p, ub)

parse_assignment(ts, p, ub) ==
    LET expr == descend("parse_equality", ts, p, ub)
        value == descend("parse_assignment", ts, expr.pos + 1, ub)
    IN  IF expr.st # "ok" THEN expr
        ELSE IF check(ts, expr.pos, "Eq")
        THEN IF value.st # "ok" THEN value
             ELSE POk(value.pos, [node |-> "Assignment", target |-> expr.val, value |-> value.val])
        ELSE expr

BinaryOp(left, operator, right) ==
    [node |-> "BinaryOp", left |-> left, operator |-> operator, right |-> right]

\* Whether the current token is a binary operator among ops.
at_operator(ts, p, ops) ==
    /\ p < Len(ts)
    /\ ts[p + 1].token_type.tag = "BinaryOperator"
    /\ ts[p + 1].token_type.val[1] \in ops

equality_loop(ts, p, left, ub) ==
    IF at_operator(ts, p, {"EqEq", "NotEq"})
    THEN LET right == descend("parse_comparison", ts, p + 1, ub) IN
         IF right.st # "ok" THEN right
         ELSE equality_loop(ts, right.pos,
                            BinaryOp(left, ts[p + 1].token_type.val[1], right.val), ub)
    ELSE POk(p, left)

parse_equality(ts, p, ub) ==
    LET left == descend("parse_comparison", ts, p, ub) IN
    IF left.st # "ok" THEN left ELSE equality_loop(ts, left.pos, left.val, ub)

parse_comparison(ts, p, ub) == descend("parse_term", ts, p, ub)

\* The loop of parse_term that parses the rest of the chain as its right operand
term_loop_right(ts, p, left, ub) ==
    IF at_operator(ts, p, {"Plus", "Minus"})
    THEN LET right == descend("parse_term", ts, p + 1, ub) IN
         IF right.st # "ok" THEN right
         ELSE POk(right.pos, BinaryOp(left, ts[p + 1].token_type.val[1], right.val))
    ELSE POk(p, left)

term_loop(ts, p, left, ub) ==
    IF at_operator(ts, p, {"Plus", "Minus"})
    THEN LET right == descend("parse_factor", ts, p + 1, ub) IN
         IF right.st # "ok" THEN right
         ELSE term_loop(ts, right.pos,
                        BinaryOp(left, ts[p + 1].token_type.val[1], right.val), ub)
    ELSE POk(p, left)

parse_term(ts, p, ub) ==
    LET left == descend("parse_factor", ts, p, ub) IN
    IF left.st # "ok" THEN left ELSE term_loop(ts, left.pos, left.val, ub)

\* The loop of parse_factor that also takes '+' and '-'
RECURSIVE factor_loop_with_plus(_, _, _, _)
factor_loop_with_plus(ts, p, left, ub) ==
    IF at_operator(ts, p, {"Star", "Slash", "Plus", "Minus"})
    THEN LET right == descend("parse_unary", ts, p + 1, ub) IN
         IF right.st # "ok" THEN right
         ELSE factor_loop_with_plus(ts, right.pos,
                                    BinaryOp(left, ts[p + 1].token_type.val[1], right.val), ub)
    ELSE POk(p, left)

factor_loop(ts, p, left, ub) ==
    IF at_operator(ts, p, {"Star", "Slash"})
    THEN LET right == descend("parse_unary", ts, p + 1, ub) IN
         IF right.st # "ok" THEN right
         ELSE factor_loop(ts, right.pos,
                          BinaryOp(left, ts[p + 1].token_type.val[1], right.val), ub)
    ELSE POk(p, left)

parse_factor(ts, p, ub) ==
    LET left == descend("parse_unary", ts, p, ub) IN
    IF left.st # "ok" THEN left ELSE factor_loop(ts, left.pos, left.val, ub)

parse_unary(ts, p, ub) ==
    IF p < Len(ts) /\ ts[p + 1].token_type.tag = "UnaryOperator"
    THEN LET expr == descend("parse_unary", ts, p + 1, ub) IN
         IF expr.st # "ok" THEN expr
         ELSE POk(expr.pos, [node |-> "UnaryOp",
                             operator |-> ts[p + 1].token_type.val[1],
                             operand |-> expr.val])
    ELSE descend("parse_call", ts, p, ub)

\* loop { name, optional ': Type', push; if !match_token(Comma) { break } }
parameter_loop(ts, p, parameters, ub) ==
    LET param_token == expect(ts, p, "Identifier", "parameter name", ub)
        type_annotation == optional_type(ts, param_token.pos, "Colon", ub)
        pushed == Append(parameters, [name |-> param_token.val.token_type.val,
                                      type_annotation |-> type_annotation.val])
    IN  IF param_token.st # "ok" THEN param_token
        ELSE IF type_annotation.st # "ok" THEN type_annotation
        ELSE IF check(ts, type_annotation.pos, "Comma")
        THEN parameter_loop(ts, type_annotation.pos + 1, pushed, ub)
        ELSE POk(type_annotation.pos, pushed)

parse_function_declaration(ts, p, ub) ==
    LET kw == expect(ts, p, "Fn", "fn", ub)
        name_token == expect(ts, kw.pos, "Identifier", "identifier", ub)
        lparen == expect(ts, name_token.pos, "LeftParen", "(", ub)
        parameters == IF ~check(ts, lparen.pos, "RightParen")
                      THEN parameter_loop(ts, lparen.pos, <<>>, ub)
                      ELSE POk(lparen.pos, <<>>)
        rparen == expect(ts, parameters.pos, "RightParen", ")", ub)
        return_type == optional_type(ts, rparen.pos, "ThinArrow", ub)
        block == descend("parse_block_statement", ts, return_type.pos, ub)
    IN  IF kw.st # "ok" THEN kw
        ELSE IF name_token.st # "ok" THEN name_token
        ELSE IF lparen.st # "ok" THEN lparen
        ELSE IF parameters.st # "ok" THEN parameters
        ELSE IF rparen.st # "ok" THEN rparen
        ELSE IF return_type.st # "ok" THEN return_type
        ELSE IF check(ts, return_type.pos, "LeftBrace")
        THEN IF block.st # "ok" THEN block
             ELSE POk(block.pos, [node |-> "FunctionDeclaration",
                                  name |-> name_token.val.token_type.val,
                                  parameters |-> parameters.val,
                                  return_type |-> return_type.val,
                                  body |-> block.val.statements])
        \* found: self.peek().unwrap_unchecked().clone()
        ELSE IF return_type.pos < Len(ts)
        THEN unexpected_token(ts, return_type.pos, "function body")
        ELSE IF ub = "abort" THEN PAbort(return_type.pos)
        ELSE PErr(return_type.pos,
                  ParserError("UnexpectedToken", "function body", <<GarbageToken>>, <<>>))

\* loop { push parse_expression()?; if !match_token(Comma) { break } }
expression_list(ts, p, acc, ub) ==
    LET e == descend("parse_expression", ts, p, ub) IN
    IF e.st # "ok" THEN e
    ELSE IF check(ts, e.pos, "Comma")
    THEN expression_list(ts, e.pos + 1, Append(acc, e.val), ub)
    ELSE POk(e.pos, Append(acc, e.val))

finish_call(ts, p, callee, ub) ==
    LET arguments == IF ~check(ts, p, "RightParen")
                     THEN expression_list(ts, p, <<>>, ub)
                     ELSE POk(p, <<>>)
        rparen == expect(ts, arguments.pos, "RightParen", ")", ub)
    IN  IF arguments.st # "ok" THEN arguments
        ELSE IF rparen.st # "ok" THEN rparen
        ELSE POk(rparen.pos, [node |-> "Call", callee |-> callee, arguments |-> arguments.val])

\* The loop of parse_call that takes one postfix form and stops
call_loop_once(ts, p, expr, ub) ==
    IF check(ts, p, "LeftParen")
    THEN finish_call(ts, p + 1, expr, ub)
    ELSE IF check(ts, p, "LeftBracket")
    THEN LET index == descend("parse_expression", ts, p + 1, ub)
             close == expect(ts, index.pos, "RightBracket", "]", ub)
         IN  IF index.st # "ok" THEN index
             ELSE IF close.st # "ok" THEN close
             ELSE POk(close.pos, [node |-> "Index", target |-> expr, index |-> index.val])
    ELSE IF check(ts, p, "Period")
    THEN LET member_token == expect(ts, p + 1, "Identifier", "property name", ub) IN
         IF member_token.st # "ok" THEN member_token
         ELSE POk(member_token.pos,
                  [node |-> "MemberAccess", target |-> expr,
                   member |-> member_token.val.token_type.val])
    ELSE POk(p, expr)

call_loop(ts, p, expr, ub) ==
    IF check(ts, p, "LeftParen")
    THEN LET call == finish_call(ts, p + 1, expr, ub) IN
         IF call.st # "ok" THEN call ELSE call_loop(ts, call.pos, call.val, ub)
    ELSE IF check(ts, p, "LeftBracket")
    THEN LET index == descend("parse_expression", ts, p + 1, ub)
             close == expect(ts, index.pos, "RightBracket", "]", ub)
         IN  IF index.st # "ok" THEN index
             ELSE IF close.st # "ok" THEN close
             ELSE call_loop(ts, close.pos,
                            [node |-> "Index", target |-> expr, index |-> index.val], ub)
    ELSE IF check(ts, p, "Period")
    THEN LET member_token == expect(ts, p + 1, "Identifier", "property name", ub) IN
         IF member_token.st # "ok" THEN member_token
         ELSE call_loop(ts, member_token.pos,
                        [node |-> "MemberAccess", target |-> expr,
                         member |-> member_token.val.token_type.val], ub)
    ELSE POk(p, expr)

parse_call(ts, p, ub) ==
    LET expr == descend("parse_primary", ts, p, ub) IN
    IF expr.st # "ok" THEN expr ELSE call_loop(ts, expr.pos, expr.val, ub)

\* The InterpolatedString node built without self.advance()
interpolated_string_node_in_place(p, string_parts) ==
    IF string_parts.st # "ok" THEN string_parts
    ELSE POk(p, [node |-> "InterpolatedString", parts |-> string_parts.val])

\* self.advance(); Ok(Expression::InterpolatedString { parts: string_parts })
interpolated_string_node(p, string_parts) ==
    IF string_parts.st # "ok" THEN string_parts
    ELSE POk(p + 1, [node |-> "InterpolatedString", parts |-> string_parts.val])

Literal(kind, value) == [node |-> "Literal", kind |-> kind, value |-> value]

parse_primary(ts, p, ub) ==
    IF p < Len(ts)
    THEN LET tt == ts[p + 1].token_type IN
         IF tt.tag = "FloatLiteral" THEN POk(p + 1, Literal("Float", tt.val))
         ELSE IF tt.tag = "StringLiteral" THEN POk(p + 1, Literal("String", tt.val))
         ELSE IF tt.tag \in {"IntLiteral", "HexLiteral", "BinaryLiteral"}
         THEN POk(p + 1, Literal("Int", tt.val))
         ELSE IF tt.tag = "InterpolatedString"
         THEN interpolated_string_node(p, parse_interpolated_string(ts, p, tt.val, 1, <<>>, ub))
         ELSE IF tt.tag = "Identifier"
         THEN IF tt.val = <<"t","r","u","e">> \/ tt.val = <<"f","a","l","s","e">>
              THEN POk(p + 1, Literal("Bool", tt.val))
              ELSE POk(p + 1, [node |-> "Identifier", name |-> tt.val])
         ELSE IF tt.tag = "LeftParen"
         THEN LET expr == descend("parse_expression", ts, p + 1, ub)
                  close == expect(ts, expr.pos, "RightParen", ")", ub)
              IN  IF expr.st # "ok" THEN expr
                  ELSE IF close.st # "ok" THEN close
                  ELSE POk(close.pos, [node |-> "Grouped", expr |-> expr.val])
         ELSE IF tt.tag = "LeftBracket"
         THEN LET elements == IF ~check(ts, p + 1, "RightBracket")
                              THEN expression_list(ts, p + 1, <<>>, ub)
                              ELSE POk(p + 1, <<>>)
                  close == expect(ts, elements.pos, "RightBracket", "]", ub)
              IN  IF elements.st # "ok" THEN elements
                  ELSE IF close.st # "ok" THEN close
                  ELSE POk(close.pos, [node |-> "Array", elements |-> elements.val])
         ELSE unexpected_token(ts, p, "expression")
    ELSE located_error(ts, p, "UnexpectedEOF", ub)

\* StringPart::Interpolation(code): lexed is lex_strict() of the code; a lexing
\* error becomes ExpectedExpression, and a fresh parser parses the tokens.
parse_interpolation(ts, p, lexed, ub) ==
    IF ~lexed.ok THEN located_error(ts, p, "ExpectedExpression", ub)
    ELSE LET expr == descend("parse_expression", lexed.tokens, 0, ub) IN
         IF expr.st = "abort" THEN PAbort(p)
         ELSE IF expr.st = "err" THEN PErr(p, expr.err[1])
         ELSE POk(p, expr.val)

\* for part in parts, from the i-th on; the outer position p does not move.
parse_interpolated_string(ts, p, parts, i, result, ub) ==
    IF i > Len(parts) THEN POk(p, result)
    ELSE IF parts[i].kind = "Text"
    THEN parse_interpolated_string(ts, p, parts, i + 1,
                                   Append(result, [kind |-> "Text", s |-> parts[i].s]), ub)
    ELSE push_expression(ts, p, parts, i, result,
                         parse_interpolation(ts, p, lex_strict(parts[i].s), ub), ub)

\* let expr = parser.parse_expression()?; result.push(Expression(Box::new(expr)))
push_expression(ts, p, parts, i, result, expr, ub) ==
    IF expr.st # "ok" THEN expr
    ELSE parse_interpolated_string(ts, p, parts, i + 1,
             Append(result, [kind |-> "Expression", expr |-> expr.val]), ub)

\* parse_return that gives Return(None) when ';' follows the keyword
parse_return_without_value(ts, p, ub) ==
    LET kw == expect(ts, p, "Return", "return", ub)
        return_expr == descend("parse_expression", ts, kw.pos, ub)
        semi == expect(ts, return_expr.pos, "Semicolon", ";", ub)
    IN  IF kw.st # "ok" THEN kw
        ELSE IF check(ts, kw.pos, "Semicolon")
        THEN POk(kw.pos + 1, [node |-> "Return", value |-> <<>>])
        ELSE IF return_expr.st # "ok" THEN return_expr
        ELSE IF semi.st # "ok" THEN semi
        ELSE POk(semi.pos, [node |-> "Return", value |-> <<return_expr.val>>])

parse_return(ts, p, ub) ==
    LET kw == expect(ts, p, "Return", "return", ub)
        return_expr == descend("parse_expression", ts, kw.pos, ub)
        semi == expect(ts, return_expr.pos, "Semicolon", ";", ub)
    IN  IF kw.st # "ok" THEN kw
        ELSE IF return_expr.st # "ok" THEN return_expr
        ELSE IF semi.st # "ok" THEN semi
        ELSE POk(semi.pos, [node |-> "Return", value |-> <<return_expr.val>>])

\* self.<rule>(): the call of one parsing method from another, by the method's name.
descend(rule, ts, p, ub) ==
    CASE rule = "parse_statement" -> parse_statement(ts, p, ub)
      [] rule = "parse_let_statement" -> parse_let_statement(ts, p, ub)
      [] rule = "parse_block_statement" -> parse_block_statement(ts, p, ub)
      [] rule = "parse_expression_statement" -> parse_expression_statement(ts, p, ub)
      [] rule = "parse_expression" -> parse_expression(ts, p, ub)
      [] rule = "parse_assignment" -> parse_assignment(ts, p, ub)
      [] rule = "parse_equality" -> parse_equality(ts, p, ub)
      [] rule = "parse_comparison" -> parse_comparison(ts, p, ub)
      [] rule = "parse_term" -> parse_term(ts, p, ub)
      [] rule = "parse_factor" -> parse_factor(ts, p, ub)
      [] rule = "parse_unary" -> parse_unary(ts, p, ub)
      [] rule = "parse_function_declaration" -> parse_function_declaration(ts, p, ub)
      [] rule = "parse_call" -> parse_call(ts, p, ub)
      [] rule = "parse_primary" -> parse_primary(ts, p, ub)
      [] rule = "parse_return" -> parse_return(ts, p, ub)

\* parse() from a position to its return: ParseResult { ast, errors }, or the abort.
RECURSIVE parse_loop(_, _, _, _, _)
parse_loop(ts, p, statements, errs, ub) ==
    IF parser_is_eof(ts, p)
    THEN [st |-> "ok", pos |-> p, ast |-> statements, errors |-> errs]
    ELSE LET r == descend("parse_statement", ts, p, ub) IN
         IF r.st = "abort" THEN [st |-> "abort", pos |-> r.pos, ast |-> statements, errors |-> errs]
         ELSE IF r.st = "ok"
         THEN parse_loop(ts, r.pos, Append(statements, r.val), errs, ub)
         ELSE parse_loop(ts, synchronize(ts, r.pos), statements, errs \o r.err, ub)

\* CarbideParser::new(ts).parse()
parse(ts, ub) == parse_loop(ts, 0, <<>>, <<>>, ub)

(***************************************************************************)
(* Inputs: texts built from at most a few fragments of a family            *)
(***************************************************************************)
MaxBroadFrags == 2
MaxCommentFrags == 5
MaxStringFrags == 4
MaxTokenFrags == 3
MaxInterpolationFrags == 5
MaxEscapeFrags == 2
MaxDecimalFrags == 5
MaxPrefixFrags == 3
MaxLimitFrags == 2
MaxOperatorFrags == 4
MaxFollowerFrags == 2

StringLexeme == <<"\"", "s", "\"">>
NonAsciiBytes == <<LeadByte, ContByte>>

\* One fragment for every kind of character the lexer tells apart.
BroadFrags ==
    { <<"a">>, <<"_">>, <<"1">>, <<"0", "x">>, <<"0", "b">>, <<".">>, <<" ">>, <<"\n">>,
      <<"\"">>, <<"\\">>, <<"{">>, <<"}">>, <<"=">>, <<"!">>, <<";">>, <<"/">>, <<"*">>,
      <<"@">>, NonAsciiBytes, <<"l", "e", "t">> }

\* Comment brackets and what may stand between them.
CommentFrags == { CommentOpen, CommentClose, <<"a">>, <<" ">>, <<"\n">> }

\* Quotes, escapes and braces.
StringFrags == { <<"\"">>, <<"\\">>, <<"a">>, <<"{">>, <<"}">>, NonAsciiBytes }

\* Whole lexemes and the illegal characters.
TokenFrags == { <<"a">>, <<"1">>, <<"=">>, <<";">>, <<" ">>, StringLexeme }
IllegalFrags == { <<"@">>, NonAsciiBytes }

SeqsUpTo(S, n) == UNION { [1..k -> S] : k \in 0..n }

\* Literals that lex_number and lex_string reject after reading them to their end:
\* the bare prefixes, i64::MAX + 1, and a closed string with an unmatched brace.
MalformedLiterals ==
    { <<"0", "x">>, <<"0", "b">>,
      <<"9","2","2","3","3","7","2","0","3","6","8","5","4","7","7","5","8","0","8">>,
      <<"\"", "{", "\"">> }

\* Texts of literals and operators:
\*   strings around what may stand between the quotes of an interpolated string;
\*   strings around escape sequences, one of each kind, and a plain letter;
\*   decimal literals;
\*   prefixed literals: the prefixes, a binary, a decimal and a hex digit, a
\*   letter that is no digit;
\*   literals around the limit of i64, 2^63 - 1: 9223372036854775807,
\*   0x7fffffffffffffff and 0b1...1 (63 ones), one of them in a text;
\*   operators;
\*   a malformed literal and what follows it.
LiteralInputs ==
    LET Quoted(F) == { <<<<"\"">>>> \o f \o <<<<"\"">>>> : f \in F }
        InterpolationFrags == { <<"a">>, <<"{">>, <<"}">>, <<"\\">> }
        EscapeFrags ==
            { <<"\\", "n">>, <<"\\", "t">>, <<"\\", "r">>, <<"\\", "\\">>, <<"\\", "\"">>,
              <<"\\", "'">>, <<"\\", "0">>, <<"\\", "a">>, <<"\\", "{">>,
              <<"\\">> \o NonAsciiBytes, <<"a">> }
        DecimalFrags == { <<"1">>, <<"0">>, <<".">>, <<" ">> }
        PrefixFrags == { <<"0", "x">>, <<"0", "b">>, <<"1">>, <<"2">>, <<"f">>, <<"G">> }
        LimitFrags ==
            { <<"9","2","2","3","3","7","2","0","3","6","8","5","4","7","7","5","8","0">>,
              <<"0", "x", "7">> \o [i \in 1..14 |-> "f"],
              <<"0", "x", "8">> \o [i \in 1..14 |-> "0"],
              <<"0", "b">> \o [i \in 1..62 |-> "1"],
              <<"0">>, <<"1">>, <<"7">>, <<"8">>, <<"f">> }
        OperatorFrags == { <<"=">>, <<"!">>, <<"a">>, <<" ">> }
        FollowerFrags == { <<";">>, <<"a">>, <<"=">>, <<"1">>, <<" ">> }
    IN  Quoted(SeqsUpTo(InterpolationFrags, MaxInterpolationFrags))
          \cup Quoted(SeqsUpTo(EscapeFrags, MaxEscapeFrags))
          \cup SeqsUpTo(DecimalFrags, MaxDecimalFrags)
          \cup SeqsUpTo(PrefixFrags, MaxPrefixFrags)
          \cup { fs \in SeqsUpTo(LimitFrags, MaxLimitFrags) :
                    Cardinality({ i \in 1..Len(fs) : Len(fs[i]) > 1 }) <= 1 }
          \cup SeqsUpTo(OperatorFrags, MaxOperatorFrags)
          \cup { <<m>> \o fs : m \in MalformedLiterals,
                                fs \in SeqsUpTo(FollowerFrags, MaxFollowerFrags) }

Inputs ==
    SeqsUpTo(BroadFrags, MaxBroadFrags)
      \cup SeqsUpTo(CommentFrags, MaxCommentFrags)
      \cup SeqsUpTo(StringFrags, MaxStringFrags)
      \cup SeqsUpTo(TokenFrags \cup IllegalFrags, MaxTokenFrags)
      \cup LiteralInputs

RECURSIVE Flatten(_)
Flatten(fs) == IF fs = <<>> THEN <<>> ELSE Head(fs) \o Flatten(Tail(fs))

(***************************************************************************)
(* The lexer as a state machine                                            *)
(***************************************************************************)
cur == Cursor(pos, line, column)

\* CarbideLexer::from_src(src), lex() entered
LexInit ==
    /\ frags \in Inputs
    /\ src = Flatten(frags)
    /\ pos = 0
    /\ line = 1
    /\ column = 1
    /\ tokens = <<>>
    /\ errors = <<>>
    /\ pc = "lexing"

\* One pass through the while loop of lex() that takes the given branch.
LexPass(branch) ==
    /\ pc = "lexing"
    /\ ~is_eof(src, cur)
    /\ \E st \in {lex_pass(src, cur)} :
        /\ st.branch = branch
        /\ pos' = st.c.pos
        /\ line' = st.c.line
        /\ column' = st.c.column
        /\ tokens' = tokens \o st.toks
        /\ errors' = errors \o st.errs
        /\ pc' = IF branch = "break" THEN "done" ELSE "lexing"
    /\ UNCHANGED <<frags, src, parsevars>>

\* while !self.is_eof() fails: lex() returns LexResult { tokens, errors }
LexReturn ==
    /\ pc = "lexing"
    /\ is_eof(src, cur)
    /\ pc' = "done"
    /\ UNCHANGED <<frags, src, pos, line, column, tokens, errors, parsevars>>

LexNext ==
    \/ LexPass("skip_error")
    \/ LexPass("break")
    \/ LexPass("non_ascii")
    \/ LexPass("identifier")
    \/ LexPass("string")
    \/ LexPass("number")
    \/ LexPass("operator")
    \/ LexPass("single_char")
    \/ LexPass("unexpected_char")
    \/ LexReturn

(***************************************************************************)
(* The parser as a state machine                                           *)
(***************************************************************************)
\* main.rs: if result.has_errors() { return; }
\*          let mut parser = CarbideParser::new(result.tokens); parser.parse()
StartParse ==
    /\ pc = "done"
    /\ ppc = "idle"
    /\ errors = <<>>
    /\ ptokens' = tokens
    /\ ppos' = 0
    /\ ppc' = "parsing"
    /\ UNCHANGED <<lexvars, ast, perrors>>

\* One pass through the while loop of parse(): Ok(stmt) => statements.push(stmt)
ParseStatementOk ==
    /\ ppc = "parsing"
    /\ ~parser_is_eof(ptokens, ppos)
    /\ \E ub \in UBOutcomes :
        \E r \in {descend("parse_statement", ptokens, ppos, ub)} :
        /\ r.st = "ok"
        /\ ast' = Append(ast, r.val)
        /\ ppos' = r.pos
    /\ UNCHANGED <<lexvars, ptokens, perrors, ppc>>

\* Err(e) => { errors.push(e); self.synchronize(); }
ParseStatementErr ==
    /\ ppc = "parsing"
    /\ ~parser_is_eof(ptokens, ppos)
    /\ \E ub \in UBOutcomes :
        \E r \in {descend("parse_statement", ptokens, ppos, ub)} :
        /\ r.st = "err"
        /\ perrors' = perrors \o r.err
        /\ ppos' = synchronize(ptokens, r.pos)
    /\ UNCHANGED <<lexvars, ptokens, ast, ppc>>

\* The pass runs into undefined behaviour and the process ends there.
ParseAbort ==
    /\ ppc = "parsing"
    /\ ~parser_is_eof(ptokens, ppos)
    /\ \E ub \in UBOutcomes :
        \E r \in {descend("parse_statement", ptokens, ppos, ub)} :
        /\ r.st = "abort"
        /\ ppc' = "aborted"
    /\ UNCHANGED <<lexvars, ptokens, ppos, ast, perrors>>

\* while !self.is_eof() fails: parse() returns ParseResult { ast, errors }
ParseReturn ==
    /\ ppc = "parsing"
    /\ parser_is_eof(ptokens, ppos)
    /\ ppc' = "done"
    /\ UNCHANGED <<lexvars, ptokens, ppos, ast, perrors>>

ParseNext ==
    \/ ParseStatementOk
    \/ ParseStatementErr
    \/ ParseAbort
    \/ ParseReturn

(***************************************************************************)
(* Token lists handed to the parser directly                               *)
(***************************************************************************)
MaxBroadTokens == 2
MaxFunctionTokens == 4
MaxExprOperators == 3
MaxPostfixForms == 3
MaxStatements == 3
MaxStringParts == 3
MaxParameters == 3

Kw(name) == [tag |-> "Keyword", val |-> <<name>>]
BinOp(name) == [tag |-> "BinaryOperator", val |-> <<name>>]
Punct(name) == [tag |-> name, val |-> <<>>]
IdentA == [tag |-> "Identifier", val |-> <<"a">>]
Interp(code) == [tag |-> "InterpolatedString", val |-> <<InterpolationPart(code)>>]

BroadTokenTypes ==
    { Kw("Let"), Kw("Fn"), Kw("Return"), IdentA,
      [tag |-> "IntLiteral", val |-> <<"1">>],
      [tag |-> "StringLiteral", val |-> <<"s">>],
      BinOp("Eq"), BinOp("EqEq"), BinOp("Plus"), BinOp("Star"),
      [tag |-> "UnaryOperator", val |-> <<"Not">>],
      Punct("LeftParen"), Punct("RightParen"), Punct("LeftBrace"), Punct("RightBrace"),
      Punct("LeftBracket"), Punct("RightBracket"), Punct("Semicolon"), Punct("Colon"),
      Punct("Comma"), Punct("Period"), Punct("ThinArrow"),
      Interp(<<"a">>), Interp(<<"@">>), Interp(<<>>), Interp(<<"a", "=">>) }

\* Fragments that hold an expression and then more tokens: 'a b', 'a 1', 'a;', 'a)'
LeftoverFragments ==
    { <<"a", " ", "b">>, <<"a", " ", "1">>, <<"a", ";">>, <<"a", ")">> }

FunctionTokenTypes ==
    { Kw("Fn"), IdentA, Punct("LeftParen"), Punct("RightParen"),
      Punct("LeftBrace"), Punct("RightBrace"), Punct("Semicolon") }

\* Expression statements: operands a, b, c, ... joined by binary operators.
ExprOperators == {"EqEq", "NotEq", "Plus", "Minus", "Star", "Slash"}
OperandNames == <<"a", "b", "c", "d", "e", "f">>
ExprStatement(ops) ==
    [i \in 1..(2 * Len(ops) + 2) |->
        IF i = 2 * Len(ops) + 2 THEN Punct("Semicolon")
        ELSE IF i % 2 = 1 THEN [tag |-> "Identifier", val |-> <<OperandNames[(i + 1) \div 2]>>]
        ELSE BinOp(ops[i \div 2])]

\* Token lists the parser is started on: short lists of any tokens, function
\* headers, operator chains, and statements of each form.
ParserInputTypes ==
    LET IntOne == [tag |-> "IntLiteral", val |-> <<"1">>]
        Operands == {IdentA, IntOne, [tag |-> "StringLiteral", val |-> <<"s">>]}
        \* target = value ;
        Assignments == { <<t, BinOp("Eq"), v, Punct("Semicolon")>> :
                            t \in Operands, v \in Operands }
        Ident(n) == [tag |-> "Identifier", val |-> <<n>>]
        \* a followed by postfix forms and ';'
        PostfixForms == { <<Punct("Period"), Ident("b")>>,
                          <<Punct("LeftParen"), Punct("RightParen")>>,
                          <<Punct("LeftParen"), Ident("c"), Punct("RightParen")>>,
                          <<Punct("LeftParen"), Ident("c"), Punct("Comma"), Ident("d"),
                            Punct("RightParen")>>,
                          <<Punct("LeftBracket"), Ident("d"), Punct("RightBracket")>> }
        PostfixChains == { <<IdentA>> \o Flatten(forms) \o <<Punct("Semicolon")>> :
                              forms \in SeqsUpTo(PostfixForms, MaxPostfixForms) }
        \* 'let a : T = 1 ;' and what is left of it when tokens are missing
        LetTemplate == <<Kw("Let"), IdentA, Punct("Colon"), Ident("T"), BinOp("Eq"), IntOne,
                         Punct("Semicolon")>>
        Kept(S) == LET nth(k) == CHOOSE i \in S : Cardinality({j \in S : j < i}) = k - 1
                   IN  [k \in 1..Cardinality(S) |-> LetTemplate[nth(k)]]
        LetStatements == { Kept({1} \cup S) : S \in SUBSET (2..Len(LetTemplate)) }
        \* statements one after the other, whole ones and broken ones
        Semi == Punct("Semicolon")
        Open == Punct("LeftBrace")
        Close == Punct("RightBrace")
        FnHeader == <<Kw("Fn"), Ident("e"), Punct("LeftParen"), Punct("RightParen")>>
        StatementForms ==
            { <<IdentA, Semi>>,
              <<Kw("Let"), Ident("b"), Semi>>,
              <<Kw("Return"), Ident("c"), Semi>>,
              <<Open, Ident("d"), Semi, Close>>,
              FnHeader \o <<Open, Ident("f"), Semi, Close>>,
              <<IdentA>>,
              <<IdentA, IdentA, Semi>>,
              <<Kw("Let"), Ident("b")>>,
              <<Kw("Let"), Semi>>,
              <<Kw("Return"), Semi>>,
              <<Open, Ident("d"), Ident("d"), Semi, Close>>,
              FnHeader \o <<Open, Kw("Let"), Semi, Close>> }
        StatementLists == { Flatten(forms) : forms \in SeqsUpTo(StatementForms, MaxStatements) }
        \* a string with interpolations as a statement and as the value of an assignment
        StringParts == { TextPart(<<"x">>), InterpolationPart(<<"a">>),
                         InterpolationPart(<<"a", "=", "=", "b">>),
                         InterpolationPart(<<"a", ".", "b">>) }
        Strings == { [tag |-> "InterpolatedString", val |-> parts] :
                        parts \in { ps \in SeqsUpTo(StringParts, MaxStringParts) :
                                      /\ \E i \in 1..Len(ps) : ps[i].kind = "Interpolation"
                                      /\ \A i \in 1..(Len(ps) - 1) :
                                           ps[i].kind = "Interpolation"
                                             \/ ps[i + 1].kind = "Interpolation" } }
        StringStatements == { <<s, Semi>> : s \in Strings }
                              \cup { <<IdentA, BinOp("Eq"), s, Semi>> : s \in Strings }
        \* fn e ( parameters ) with or without '-> T', and a body or something else
        Typed == <<Punct("Colon"), Ident("T")>>
        Parameters(kinds) ==
            Flatten([i \in 1..Len(kinds) |->
                        (IF i > 1 THEN <<Punct("Comma")>> ELSE <<>>)
                          \o <<Ident(OperandNames[i])>>
                          \o (IF kinds[i] = "typed" THEN Typed ELSE <<>>)])
        Bodies == { <<Open, Close>>, <<Open, IdentA, Semi, Close>>,
                    <<Open, Kw("Return"), Ident("c"), Semi, Close>>,
                    <<Open, Kw("Let"), Ident("b"), Semi, IdentA, Semi, Close>>,
                    <<>>, <<Semi>>, <<IdentA, Semi>> }
        Functions ==
            { <<Kw("Fn"), Ident("e"), Punct("LeftParen")>> \o Parameters(kinds)
                  \o <<Punct("RightParen")>> \o return \o body :
                kinds \in SeqsUpTo({"plain", "typed"}, MaxParameters),
                return \in {<<>>, <<Punct("ThinArrow"), Ident("T")>>},
                body \in Bodies }
        \* fn e ( a : T , b : T ) -> T { return a + b ; }
        Add == <<Kw("Fn"), Ident("e"), Punct("LeftParen")>> \o Parameters(<<"typed", "typed">>)
                 \o <<Punct("RightParen"), Punct("ThinArrow"), Ident("T"), Open, Kw("Return"),
                      IdentA, BinOp("Plus"), Ident("b"), Semi, Close>>
        \* 'let a =' and 'let a : T =' before an initializer that parses or fails
        Initializers ==
            { <<IntOne>>, <<IntOne, BinOp("Plus"), IdentA>>, <<Interp(<<"a">>)>>,
              <<>>, <<Open, Close>>, <<IntOne, BinOp("Plus")>>, <<BinOp("Eq"), IntOne>>,
              <<Close>>, <<Kw("Let")>>, <<Interp(<<>>)>>, <<Interp(<<"@">>)>> }
        Initialized ==
            { <<Kw("Let"), IdentA>> \o type \o <<BinOp("Eq")>> \o value \o rest :
                type \in {<<>>, Typed},
                value \in Initializers,
                rest \in {<<>>, <<Semi>>, <<Semi, Ident("b"), Semi>>} }
    IN  SeqsUpTo(BroadTokenTypes, MaxBroadTokens)
          \cup SeqsUpTo(FunctionTokenTypes, MaxFunctionTokens)
          \cup { ExprStatement(ops) : ops \in SeqsUpTo(ExprOperators, MaxExprOperators) }
          \cup Assignments
          \cup PostfixChains
          \cup LetStatements
          \cup StatementLists
          \cup StringStatements
          \cup Functions
          \cup {Add}
          \cup Initialized
          \cup { <<Interp(code), Semi>> : code \in LeftoverFragments }

\* The i-th token of a list: a one-byte lexeme at offset 2(i-1) of line 1.
MkToken(tt, i) ==
    Token(tt.tag, tt.val,
          SourceLocation(1, 2 * i - 1, 2 * (i - 1)),
          SourceLocation(1, 2 * i, 2 * i - 1),
          2 * (i - 1), 2 * i - 1, <<>>)

MkTokens(tts) == [i \in 1..Len(tts) |-> MkToken(tts[i], i)]

\* CarbideParser::new(tokens), parse() entered; no lexer runs.
ParseInit ==
    /\ frags = <<>>
    /\ src = <<>>
    /\ pos = 0
    /\ line = 1
    /\ column = 1
    /\ tokens = <<>>
    /\ errors = <<>>
    /\ pc = "done"
    /\ \E tts \in ParserInputTypes : ptokens = MkTokens(tts)
    /\ ppos = 0
    /\ ast = <<>>
    /\ perrors = <<>>
    /\ ppc = "parsing"

SpecParse == ParseInit /\ [][ParseNext]_vars

Init ==
    /\ LexInit
    /\ ptokens = <<>>
    /\ ppos = 0
    /\ ast = <<>>
    /\ perrors = <<>>
    /\ ppc = "idle"

Next ==
    \/ LexNext
    \/ StartParse
    \/ ParseNext

Spec == Init /\ [][Next]_vars

(***************************************************************************)
(* Properties of lex()                                                     *)
(***************************************************************************)
\* C1: every pass through the main loop of lex() strictly increases the cursor
\* offset and keeps it inside the text, so lex() returns after at most Len(src)
\* passes; a pass that records a diagnostic leaves the cursor beyond the place
\* where its recovery started, unless recovery started at the end of input.
C1_LexProgress ==
    [][(pc = "lexing" /\ ~is_eof(src, cur)) =>
          /\ pos' > pos
          /\ pos' <= Len(src)
          /\ pc' \in {"lexing", "done"}
          /\ (errors' # errors =>
                LET at == lex_pass(src, cur).at IN
                    /\ Len(errors') = Len(errors) + 1
                    /\ (~is_eof(src, at) => pos' > at.pos))]_vars

\* A diagnostic has been recorded, recovery has stopped before the end of input
\* and a token has been lexed from there.
C1_Witness ==
    /\ Len(errors) >= 1
    /\ Len(tokens) >= 1
    /\ errors[1].loc.offset < tokens[Len(tokens)].span.start
    /\ pos < Len(src)

(***************************************************************************)
(* Properties of parse()                                                   *)
(***************************************************************************)
\* C2: parse() never aborts: whatever the token list, no step evaluates last()
\* or current_location() at position 0 and no step unwraps an absent token.
C2_ParseNeverAborts == ppc # "aborted"

\* C3: every pass through the top-level loop of parse() either pushes a statement
\* or records a diagnostic, and leaves the position strictly further and still
\* inside the token list, so parse() returns after at most Len(ptokens) passes.
C3_ParseProgress ==
    [][(ppc = "parsing" /\ ~parser_is_eof(ptokens, ppos)) =>
          /\ ppos' > ppos
          /\ ppos' <= Len(ptokens)
          /\ \/ Len(ast') = Len(ast) + 1 /\ perrors' = perrors
             \/ Len(perrors') = Len(perrors) + 1 /\ ast' = ast]_vars

\* What remains of C3 beside the aborts of C2: a pass that is not aborted makes
\* the progress C3 states.
C3_ProgressUnlessAborted ==
    [][(ppc = "parsing" /\ ~parser_is_eof(ptokens, ppos) /\ ppc' # "aborted") =>
          /\ ppos' > ppos
          /\ ppos' <= Len(ptokens)
          /\ \/ Len(ast') = Len(ast) + 1 /\ perrors' = perrors
             \/ Len(perrors') = Len(perrors) + 1 /\ ast' = ast]_vars

(***************************************************************************)
(* Texts with one illegal character                                        *)
(***************************************************************************)
\* The places of the illegal characters in a list of fragments.
IllegalAt(fs) == { i \in 1..Len(fs) : fs[i] \in IllegalFrags }

\* Valid tokens plus exactly one illegal character.
OneIllegalChar(fs) ==
    /\ \A i \in 1..Len(fs) : fs[i] \in TokenFrags \cup IllegalFrags
    /\ Cardinality(IllegalAt(fs)) = 1

\* The same text with the illegal character replaced by a space.
Replaced(fs) == [i \in 1..Len(fs) |-> IF fs[i] \in IllegalFrags THEN <<" ">> ELSE fs[i]]

\* What a token list says apart from the places of its tokens.
Lexemes(toks) == [i \in 1..Len(toks) |-> <<toks[i].token_type, toks[i].src>>]

\* C4: a text of valid tokens and exactly one illegal character lexes with
\* exactly one diagnostic, the one for that character, and with the tokens of
\* the same text in which the character is replaced by a space.
C4_OneDiagnostic ==
    (pc = "done" /\ OneIllegalChar(frags)) =>
        LET clean == lex(Flatten(Replaced(frags))) IN
        /\ clean.errors = <<>>
        /\ Len(errors) = 1
        /\ errors[1].kind \in {"UnexpectedChar", "NonASCIIChar"}
        /\ Lexemes(tokens) = Lexemes(clean.tokens)

(***************************************************************************)
(* The tokens of lex()                                                     *)
(***************************************************************************)
\* C5: the src of every token lex() has emitted is exactly the bytes of the
\* text from span.start up to span.end, and the offsets of its start and end
\* locations are span.start and span.end.
C5_TokenSlices ==
    \A i \in 1..Len(tokens) :
        LET tok == tokens[i] IN
        /\ tok.src = SubSeq(src, tok.span.start + 1, tok.span.end)
        /\ tok.start.offset = tok.span.start
        /\ tok.end.offset = tok.span.end

\* lex() has returned a string token that does not start the text, and a token
\* of another kind.
C5_Witness ==
    /\ pc = "done"
    /\ \E i, j \in 1..Len(tokens) :
        /\ tokens[i].token_type.tag \in {"StringLiteral", "InterpolatedString"}
        /\ tokens[i].span.start > 0
        /\ tokens[j].token_type.tag \in {"Identifier", "Keyword", "IntLiteral"}

\* a is not after b in the lexicographic order of (line, column)
LocationLeq(a, b) == a.line < b.line \/ (a.line = b.line /\ a.column <= b.column)

\* C6: of two consecutive tokens the first ends where or before the second
\* starts, by offset and by (line, column); also after error recovery.
C6_TokenOrder ==
    \A i \in 1..(Len(tokens) - 1) :
        /\ tokens[i].span.end <= tokens[i + 1].span.start
        /\ LocationLeq(tokens[i].end, tokens[i + 1].start)

\* Two consecutive tokens on different lines with a recovered error between them.
C6_Witness ==
    \E i \in 1..(Len(tokens) - 1) :
        /\ tokens[i].end.line < tokens[i + 1].start.line
        /\ \E k \in 1..Len(errors) :
            /\ tokens[i].span.end <= errors[k].loc.offset
            /\ errors[k].loc.offset < tokens[i + 1].span.start

(***************************************************************************)
(* Block comments, read off the fragments of the text                      *)
(***************************************************************************)
\* A text of the comment family: '/*', '*/', a letter, a newline.
CommentText(fs) == \A i \in 1..Len(fs) : fs[i] \in CommentFrags

\* The depth counter after the first n fragments: 0 outside any comment, +1 at
\* '/*', -1 at '*/'; -1 once a '*/' stands outside any comment.
RECURSIVE DepthAfter(_, _)
DepthAfter(fs, n) ==
    IF n = 0 THEN 0
    ELSE LET d == DepthAfter(fs, n - 1) IN
         IF d < 0 THEN d
         ELSE IF fs[n] = CommentOpen THEN d + 1
         ELSE IF fs[n] = CommentClose THEN d - 1
         ELSE d

\* The offset at which fragment i starts.
RECURSIVE FragOffset(_, _)
FragOffset(fs, i) == IF i = 1 THEN 0 ELSE FragOffset(fs, i - 1) + Len(fs[i - 1])

\* The offsets of the letters that stand outside every comment.
LettersOutside(fs) ==
    { FragOffset(fs, i) : i \in { k \in 1..Len(fs) : fs[k] = <<"a">> /\ DepthAfter(fs, k) = 0 } }

\* The offsets the tokens cover.
TokenBytes(toks) == UNION { toks[i].span.start .. (toks[i].span.end - 1) : i \in 1..Len(toks) }

\* C7: in a text whose block comments are balanced by the depth counter nothing
\* inside a comment becomes a token, no diagnostic is produced, and exactly the
\* letters outside the comments are lexed, as identifiers.
C7_BalancedComments ==
    (pc = "done" /\ CommentText(frags) /\ DepthAfter(frags, Len(frags)) = 0) =>
        /\ errors = <<>>
        /\ \A i \in 1..Len(tokens) : tokens[i].token_type.tag = "Identifier"
        /\ TokenBytes(tokens) = LettersOutside(frags)

\* lex() has returned from a text that starts with a comment nested in a
\* comment, both closed, and has a token after them.
C7_Witness ==
    /\ pc = "done"
    /\ CommentText(frags)
    /\ Len(frags) >= 5
    /\ frags[1] = CommentOpen
    /\ frags[2] = CommentOpen
    /\ DepthAfter(frags, 4) = 0
    /\ Len(tokens) = 1
    /\ tokens[1].span.start = 8

\* The fragment that opens the comment the text ends in.
Outermost(fs) ==
    CHOOSE i \in 1..Len(fs) :
        /\ fs[i] = CommentOpen
        /\ DepthAfter(fs, i - 1) = 0
        /\ \A j \in i..Len(fs) : DepthAfter(fs, j) > 0

\* The fragments before fragment i that are on its line.
OnLineBefore(fs, i) == { k \in 1..(i - 1) : \A j \in k..(i - 1) : fs[j] # <<"\n">> }

\* The place where fragment i starts, counted from the fragments.
FragLocation(fs, i) ==
    SourceLocation(1 + Cardinality({ k \in 1..(i - 1) : fs[k] = <<"\n">> }),
                   1 + FragOffset(fs, i)
                     - (IF OnLineBefore(fs, i) = {} THEN FragOffset(fs, i)
                        ELSE FragOffset(fs, CHOOSE k \in OnLineBefore(fs, i) :
                                                \A j \in OnLineBefore(fs, i) : k <= j)),
                   FragOffset(fs, i))

\* C8: when the text ends inside a block comment, lex() reports exactly one
\* diagnostic, UnclosedComment at the place of the outermost '/*' of that
\* comment, keeps the tokens before it and emits no token after it.
C8_UnclosedComment ==
    (pc = "done" /\ CommentText(frags) /\ DepthAfter(frags, Len(frags)) > 0) =>
        /\ errors = <<LexerError("UnclosedComment", <<>>,
                                 FragLocation(frags, Outermost(frags)))>>
        /\ \A i \in 1..Len(tokens) : tokens[i].token_type.tag = "Identifier"
        /\ TokenBytes(tokens) = LettersOutside(frags)
        /\ \A i \in 1..Len(tokens) : tokens[i].span.end <= FragOffset(frags, Outermost(frags))

\* lex() has returned from a text that ends inside a comment nested in a comment
\* that opens on the second line, after a token.
C8_Witness ==
    /\ pc = "done"
    /\ CommentText(frags)
    /\ DepthAfter(frags, Len(frags)) > 1
    /\ Len(tokens) >= 1
    /\ Len(errors) = 1
    /\ errors[1].loc.line = 2

(***************************************************************************)
(* Non-ASCII characters and string literals                                *)
(***************************************************************************)
\* C9: a text that holds a non-ASCII character anywhere lexes with at least one
\* NonASCIIChar diagnostic.
C9_NonAsciiRejected ==
    (pc = "done" /\ \E i \in 1..Len(src) : src[i] = LeadByte) =>
        \E k \in 1..Len(errors) : errors[k].kind = "NonASCIIChar"

\* The first quote at or after the i-th byte that no backslash escapes; 0 when
\* the text has none.
RECURSIVE ClosingQuote(_, _)
ClosingQuote(s, i) ==
    IF i > Len(s) THEN 0
    ELSE IF s[i] = "\"" THEN i
    ELSE IF s[i] = "\\" THEN ClosingQuote(s, i + 2)
    ELSE ClosingQuote(s, i + 1)

\* The place of offset o, counted from the bytes of the text: a line per
\* newline before it, a column per character since the last one.
ByteLocation(s, o) ==
    LET newlines == { i \in 1..o : s[i] = "\n" }
        line_start == IF newlines = {} THEN 0
                      ELSE CHOOSE i \in newlines : \A j \in newlines : j <= i
    IN  SourceLocation(1 + Cardinality(newlines),
                       1 + Cardinality({ i \in (line_start + 1)..o : s[i] # ContByte }),
                       o)

\* C10: a pass of lex() that starts a string literal at a quote runs to the
\* first quote after it that no backslash escapes and pushes the token that
\* ends there (or UnmatchedBrace); when the text has no such quote the pass
\* pushes exactly one diagnostic, UnclosedString at the place of the opening
\* quote, keeps the tokens lexed so far and leaves nothing to lex.
C10_StringEnd ==
    [][(pc = "lexing" /\ ~is_eof(src, cur) /\ lex_pass(src, cur).branch = "string") =>
          LET o == IF tokens' # tokens THEN tokens'[Len(tokens')].span.start
                   ELSE errors'[Len(errors')].loc.offset
              q == ClosingQuote(src, o + 2)
          IN  /\ o >= pos
              /\ src[o + 1] = "\""
              /\ IF q = 0
                 THEN /\ tokens' = tokens
                      /\ errors' = Append(errors, LexerError("UnclosedString", <<>>,
                                                             ByteLocation(src, o)))
                      /\ pos' = Len(src)
                 ELSE \/ /\ errors' = errors
                         /\ Len(tokens') = Len(tokens) + 1
                         /\ SubSeq(tokens', 1, Len(tokens)) = tokens
                         /\ tokens'[Len(tokens')].span.end = q
                         /\ tokens'[Len(tokens')].token_type.tag
                                \in {"StringLiteral", "InterpolatedString"}
                      \/ /\ tokens' = tokens
                         /\ errors' = Append(errors, LexerError("UnmatchedBrace", <<>>,
                                                                ByteLocation(src, o)))
                         /\ pos' >= q]_vars

\* lex() has returned UnclosedString for a string that holds an escaped quote
\* and starts on the first line after a token.
C10_Witness ==
    /\ pc = "done"
    /\ Len(tokens) >= 1
    /\ Len(errors) = 1
    /\ errors[1].kind = "UnclosedString"
    /\ tokens[Len(tokens)].span.end <= errors[1].loc.offset
    /\ \E i \in (errors[1].loc.offset + 2)..Len(src) : src[i] = "\""

(***************************************************************************)
(* The content of string literals, read off the bytes of the text          *)
(***************************************************************************)
\* The offset at which the pass that has just pushed a token or a diagnostic
\* started it: for a string literal, the opening quote.
PassStart ==
    IF tokens' # tokens THEN tokens'[Len(tokens')].span.start
    ELSE errors'[Len(errors')].loc.offset

\* The bytes between the opening quote at offset o and the quote that closes it.
RawContent(s, o) == SubSeq(s, o + 2, ClosingQuote(s, o + 2) - 1)

\* Whether a '{' that no backslash escapes stands at or after the i-th byte.
RECURSIVE UnescapedBrace(_, _)
UnescapedBrace(raw, i) ==
    IF i > Len(raw) THEN FALSE
    ELSE IF raw[i] = "\\" THEN UnescapedBrace(raw, i + 2)
    ELSE raw[i] = "{" \/ UnescapedBrace(raw, i + 1)

\* The seven escapes with a meaning, by the byte after the backslash.
EscapeTable ==
    { <<"n", "\n">>, <<"t", "\t">>, <<"r", "\r">>, <<"\\", "\\">>, <<"\"", "\"">>,
      <<"'", "'">>, <<"0", "NUL">> }

\* What a backslash and the byte b after it stand for.
Decoded(b) ==
    IF \E e \in EscapeTable : e[1] = b
    THEN <<(CHOOSE e \in EscapeTable : e[1] = b)[2]>>
    ELSE <<"\\", b>>

\* A text with every escape sequence from the i-th byte on replaced by what it
\* stands for.
RECURSIVE DecodeAll(_, _)
DecodeAll(raw, i) ==
    IF i > Len(raw) THEN <<>>
    ELSE IF raw[i] = "\\" /\ i < Len(raw) THEN Decoded(raw[i + 1]) \o DecodeAll(raw, i + 2)
    ELSE <<raw[i]>> \o DecodeAll(raw, i + 1)

\* The parts of a string content in one pass over its bytes from the i-th on:
\* outside braces (depth 0) the decoded text collects in acc until a '{' that no
\* backslash escapes, inside braces the raw bytes collect in acc until the '}'
\* that brings the depth back to 0.  matched tells whether the content ends
\* outside braces.
RECURSIVE SplitParts(_, _, _, _, _, _)
SplitParts(raw, i, depth, esc, acc, parts) ==
    LET flushed == IF acc # <<>> THEN Append(parts, TextPart(acc)) ELSE parts IN
    IF i > Len(raw)
    THEN [matched |-> depth = 0, parts |-> IF depth = 0 THEN flushed ELSE parts]
    ELSE IF depth = 0
    THEN IF esc THEN SplitParts(raw, i + 1, 0, FALSE, acc \o Decoded(raw[i]), parts)
         ELSE IF raw[i] = "\\" THEN SplitParts(raw, i + 1, 0, TRUE, acc, parts)
         ELSE IF raw[i] = "{" THEN SplitParts(raw, i + 1, 1, FALSE, <<>>, flushed)
         ELSE SplitParts(raw, i + 1, 0, FALSE, Append(acc, raw[i]), parts)
    ELSE IF raw[i] = "{" THEN SplitParts(raw, i + 1, depth + 1, FALSE, Append(acc, raw[i]), parts)
    ELSE IF raw[i] = "}"
    THEN IF depth = 1
         THEN SplitParts(raw, i + 1, 0, FALSE, <<>>, Append(parts, InterpolationPart(acc)))
         ELSE SplitParts(raw, i + 1, depth - 1, FALSE, Append(acc, raw[i]), parts)
    ELSE SplitParts(raw, i + 1, depth, FALSE, Append(acc, raw[i]), parts)

ExpectedParts(raw) == SplitParts(raw, 1, 0, FALSE, <<>>, <<>>)

\* A pass of lex() that starts a string literal which is closed.
ClosedStringPass ==
    /\ pc = "lexing"
    /\ ~is_eof(src, cur)
    /\ lex_pass(src, cur).branch = "string"
    /\ ClosingQuote(src, PassStart + 2) # 0

\* C11: a closed string whose content holds a '{' that no backslash escapes, all
\* braces matched, lexes to one InterpolatedString token whose parts are, in
\* source order, the decoded non-empty text runs outside braces and the raw text
\* of every outermost '{...}'; a closed string without such a '{' lexes to a
\* StringLiteral.
C11_InterpolatedParts ==
    [][ClosedStringPass =>
          LET raw == RawContent(src, PassStart)
              expected == ExpectedParts(raw)
          IN  IF UnescapedBrace(raw, 1)
              THEN expected.matched =>
                     /\ errors' = errors
                     /\ Len(tokens') = Len(tokens) + 1
                     /\ tokens'[Len(tokens')].token_type
                            = [tag |-> "InterpolatedString", val |-> expected.parts]
              ELSE /\ errors' = errors
                   /\ Len(tokens') = Len(tokens) + 1
                   /\ tokens'[Len(tokens')].token_type.tag = "StringLiteral"]_vars

\* lex() has returned a token with a text part and, after it, an interpolation
\* that holds nested braces.
C11_Witness ==
    /\ pc = "done"
    /\ \E i \in 1..Len(tokens) :
        /\ tokens[i].token_type.tag = "InterpolatedString"
        /\ Len(tokens[i].token_type.val) = 2
        /\ tokens[i].token_type.val[1].kind = "Text"
        /\ tokens[i].token_type.val[2] = InterpolationPart(<<"{", "}">>)

\* C12: a closed string whose content holds an unescaped '{' and ends inside
\* braces yields exactly one diagnostic, UnmatchedBrace at the place of the
\* opening quote, and no token.
C12_UnmatchedBrace ==
    [][ClosedStringPass =>
          LET raw == RawContent(src, PassStart) IN
          (UnescapedBrace(raw, 1) /\ ~ExpectedParts(raw).matched) =>
              /\ tokens' = tokens
              /\ errors' = Append(errors, LexerError("UnmatchedBrace", <<>>,
                                                     ByteLocation(src, PassStart)))]_vars

\* lex() has returned UnmatchedBrace for a closed string that starts after a
\* token.
C12_Witness ==
    /\ pc = "done"
    /\ Len(errors) = 1
    /\ errors[1].kind = "UnmatchedBrace"
    /\ Len(tokens) >= 1
    /\ tokens[1].span.end <= errors[1].loc.offset
    /\ ClosingQuote(src, errors[1].loc.offset + 2) # 0

\* C17: a closed string without interpolation lexes, with no diagnostic, to a
\* StringLiteral whose content is the raw content with \n, \t, \r, \\, \", \'
\* and \0 replaced by the character they stand for and every other escape kept
\* as backslash and character.
C17_EscapeDecoding ==
    [][ClosedStringPass =>
          LET raw == RawContent(src, PassStart) IN
          ~UnescapedBrace(raw, 1) =>
              /\ errors' = errors
              /\ Len(tokens') = Len(tokens) + 1
              /\ tokens'[Len(tokens')].token_type
                     = [tag |-> "StringLiteral", val |-> DecodeAll(raw, 1)]]_vars

\* lex() has returned a StringLiteral from a text that holds an escape with a
\* meaning and one without, and the content is shorter than the raw content.
C17_Witness ==
    /\ pc = "done"
    /\ errors = <<>>
    /\ Len(tokens) = 1
    /\ tokens[1].token_type.tag = "StringLiteral"
    /\ Len(frags) = 4
    /\ frags[2] \in { <<"\\", "n">>, <<"\\", "0">> }
    /\ frags[3] \in { <<"\\", "a">>, <<"\\", "{">> }
    /\ Len(tokens[1].token_type.val) = 3

(***************************************************************************)
(* Number literals, read off the bytes of the text                         *)
(***************************************************************************)
\* The first index from i on at which the text has no byte of the set D.
RECURSIVE RunEnd(_, _, _)
RunEnd(s, i, D) == IF i <= Len(s) /\ s[i] \in D THEN RunEnd(s, i + 1, D) ELSE i

HexDigits == AsciiDigits \cup HexLetters
BinDigits == {"0", "1"}

\* Whether the prefix pre stands at offset o.
PrefixAt(s, o, pre) == o + 2 <= Len(s) /\ SubSeq(s, o + 1, o + 2) = pre

\* A pass of lex() that lexes a number: decimal, or with the given prefix.
NumberPass == pc = "lexing" /\ ~is_eof(src, cur) /\ lex_pass(src, cur).branch = "number"
DecimalPass ==
    NumberPass /\ ~PrefixAt(src, PassStart, <<"0", "x">>) /\ ~PrefixAt(src, PassStart, <<"0", "b">>)

\* Where the decimal literal at offset o ends: after its digits, or after one
\* '.' that follows them and the digits after that.
DecimalDot(s, o) ==
    LET e == RunEnd(s, o + 1, AsciiDigits) IN e <= Len(s) /\ s[e] = "."
DecimalEnd(s, o) ==
    LET e == RunEnd(s, o + 1, AsciiDigits) IN
    IF DecimalDot(s, o) THEN RunEnd(s, e + 1, AsciiDigits) - 1 ELSE e - 1

\* A run of digits without the zeros it starts with, or ends with.
WithoutLeadingZeros(d) ==
    SubSeq(d, 1 + Cardinality({ k \in 1..Len(d) : \A j \in 1..k : d[j] = "0" }), Len(d))
WithoutTrailingZeros(d) ==
    SubSeq(d, 1, Len(d) - Cardinality({ k \in 1..Len(d) : \A j \in k..Len(d) : d[j] = "0" }))

\* The decimal number a text of digits, one '.', and digits spells.
DecimalNumber(text) ==
    LET dot == CHOOSE i \in 1..Len(text) : text[i] = "." IN
    [int |-> WithoutLeadingZeros(SubSeq(text, 1, dot - 1)),
     frac |-> WithoutTrailingZeros(SubSeq(text, dot + 1, Len(text)))]

\* Every FloatLiteral that is followed by a '.' which lex() has passed is
\* followed by a Period token at that '.', and no diagnostic is anchored there.
PeriodAfterFloat ==
    \A i \in 1..Len(tokens) :
        LET e == tokens[i].span.end IN
        (tokens[i].token_type.tag = "FloatLiteral" /\ e < pos /\ src[e + 1] = ".") =>
            /\ i < Len(tokens)
            /\ tokens[i + 1].token_type.tag = "Period"
            /\ tokens[i + 1].span = [start |-> e, end |-> e + 1]
            /\ \A k \in 1..Len(errors) : errors[k].loc.offset # e

\* C13: a decimal number token covers the digits at its start, one '.' when it
\* follows them, and the digits after it; it is a FloatLiteral, with the value
\* the text spells, iff it holds the '.', else an IntLiteral; a '.' after a
\* FloatLiteral is lexed as a Period token without a diagnostic, and so is a
\* '.' at which a pass starts.
C13_DecimalLiteral ==
    [][/\ DecimalPass =>
            LET e == DecimalEnd(src, PassStart)
                tok == tokens'[Len(tokens')]
            IN  IF DecimalDot(src, PassStart) \/ e - PassStart <= 18
                THEN /\ errors' = errors
                     /\ Len(tokens') = Len(tokens) + 1
                     /\ tok.span = [start |-> PassStart, end |-> e]
                     /\ IF DecimalDot(src, PassStart)
                        THEN tok.token_type = [tag |-> "FloatLiteral",
                                               val |-> DecimalNumber(SubSeq(src, PassStart + 1, e))]
                        ELSE tok.token_type.tag = "IntLiteral"
                ELSE tokens' # tokens =>
                     /\ tok.span = [start |-> PassStart, end |-> e]
                     /\ tok.token_type.tag = "IntLiteral"
       /\ (pc = "lexing" /\ ~is_eof(src, cur) /\ lex_pass(src, cur).branch = "single_char"
             /\ src[PassStart + 1] = ".") =>
                /\ errors' = errors
                /\ tokens'[Len(tokens')].token_type.tag = "Period"
       /\ PeriodAfterFloat']_vars

\* lex() has returned FloatLiteral, Period, IntLiteral from a text like '1.0.1',
\* the FloatLiteral with a fraction that ends in a zero.
C13_Witness ==
    /\ pc = "done"
    /\ errors = <<>>
    /\ Len(tokens) = 3
    /\ tokens[1].token_type.tag = "FloatLiteral"
    /\ tokens[1].src[Len(tokens[1].src)] = "0"
    /\ tokens[2].token_type.tag = "Period"
    /\ tokens[3].token_type.tag = "IntLiteral"

\* 2^63 - 1 in decimal.
I64MaxDecimal ==
    <<"9","2","2","3","3","7","2","0","3","6","8","5","4","7","7","5","8","0","7">>

Repeat(ch, n) == [i \in 1..n |-> ch]

\* a <= b for two runs of decimal digits of the same length
DigitsLeq(a, b) ==
    \/ a = b
    \/ \E k \in 1..Len(a) :
          /\ \A j \in 1..(k - 1) : a[j] = b[j]
          /\ digit_value(a[k]) < digit_value(b[k])

\* Whether the number a run of digits of the radix spells is at most 2^63 - 1.
FitsI64(digits, radix) ==
    LET d == WithoutLeadingZeros(digits) IN
    CASE radix = 10 -> Len(d) < 19 \/ (Len(d) = 19 /\ DigitsLeq(d, I64MaxDecimal))
      [] radix = 16 -> Len(d) < 16 \/ (Len(d) = 16 /\ digit_value(d[1]) <= 7)
      [] radix = 2  -> Len(d) <= 63

\* Twice a decimal number plus a carry, digit by digit from the right.
RECURSIVE Doubled(_, _)
Doubled(d, carry) ==
    IF d = <<>> THEN IF carry = 0 THEN <<>> ELSE <<"1">>
    ELSE LET v == 2 * digit_value(d[Len(d)]) + carry IN
         Append(Doubled(SubSeq(d, 1, Len(d) - 1), v \div 10),
                CHOOSE ch \in AsciiDigits : digit_value(ch) = v % 10)

\* The decimal digits of a value given by its binary digits.
RECURSIVE DecimalOf(_)
DecimalOf(bits) ==
    IF bits = <<>> THEN <<>>
    ELSE Doubled(DecimalOf(SubSeq(bits, 1, Len(bits) - 1)),
                 IF bits[Len(bits)] = "1" THEN 1 ELSE 0)

\* The hex digits of a value given by its binary digits.
RECURSIVE HexOf(_)
HexOf(bits) ==
    IF bits = <<>> THEN <<>>
    ELSE LET n == IF Len(bits) < 4 THEN Len(bits) ELSE 4
             low == SubSeq(bits, Len(bits) - n + 1, Len(bits))
         IN  Append(HexOf(SubSeq(bits, 1, Len(bits) - n)),
                    CHOOSE ch \in AsciiDigits \cup {"a", "b", "c", "d", "e", "f"} :
                        nibble(digit_value(ch)) = Repeat("0", 4 - n) \o low)

\* A value in the digits of the radix, without leading zeros.
Spelled(bits, radix) ==
    CASE radix = 10 -> DecimalOf(bits)
      [] radix = 16 -> WithoutLeadingZeros(HexOf(bits))
      [] radix = 2  -> bits

\* What a number pass must do with the digits it has read: a token of the given
\* kind that carries their value and covers the literal up to offset e, or the
\* given diagnostic and no token.
ReadsI64(digits, radix, tag, errkind, e) ==
    IF FitsI64(digits, radix)
    THEN /\ errors' = errors
         /\ Len(tokens') = Len(tokens) + 1
         /\ tokens'[Len(tokens')].token_type.tag = tag
         /\ tokens'[Len(tokens')].span = [start |-> PassStart, end |-> e]
         /\ Len(tokens'[Len(tokens')].token_type.val) <= 63
         /\ Spelled(tokens'[Len(tokens')].token_type.val, radix) = WithoutLeadingZeros(digits)
    ELSE /\ tokens' = tokens
         /\ errors' = Append(errors, LexerError(errkind, digits, ByteLocation(src, PassStart)))

\* C14: an integer, hex or binary literal whose value is at most 2^63 - 1 gives
\* a token that carries exactly that value; one whose value is larger gives the
\* diagnostic of its kind and no token.
C14_SignedRange ==
    [][NumberPass =>
          LET o == PassStart
              hex_end == RunEnd(src, o + 3, HexDigits) - 1
              bin_end == RunEnd(src, o + 3, BinDigits) - 1
              dec_end == DecimalEnd(src, o)
          IN  IF PrefixAt(src, o, <<"0", "x">>)
              THEN hex_end > o + 2 =>
                     ReadsI64(SubSeq(src, o + 3, hex_end), 16, "HexLiteral",
                              "InvalidHexLiteral", hex_end)
              ELSE IF PrefixAt(src, o, <<"0", "b">>)
              THEN bin_end > o + 2 =>
                     ReadsI64(SubSeq(src, o + 3, bin_end), 2, "BinaryLiteral",
                              "InvalidBinaryLiteral", bin_end)
              ELSE ~DecimalDot(src, o) =>
                     ReadsI64(SubSeq(src, o + 1, dec_end), 10, "IntLiteral",
                              "InvalidIntegerLiteral", dec_end)]_vars

\* lex() has returned, with no diagnostic, one integer token whose value takes
\* all 63 bits: the literal is 2^63 - 1 in one of the three notations.
C14_Witness ==
    /\ pc = "done"
    /\ errors = <<>>
    /\ Len(tokens) = 1
    /\ tokens[1].token_type.tag \in {"IntLiteral", "HexLiteral", "BinaryLiteral"}
    /\ tokens[1].token_type.val = Repeat("1", 63)

\* C15: '0x' that no hex digit follows gives InvalidHexLiteral, '0b' that no
\* binary digit follows gives InvalidBinaryLiteral, each at the place where the
\* literal starts and with no token.
C15_EmptyPrefix ==
    [][NumberPass =>
          LET o == PassStart IN
          /\ (PrefixAt(src, o, <<"0", "x">>) /\ RunEnd(src, o + 3, HexDigits) = o + 3) =>
                /\ tokens' = tokens
                /\ errors' = Append(errors, LexerError("InvalidHexLiteral", <<"0", "x">>,
                                                       ByteLocation(src, o)))
          /\ (PrefixAt(src, o, <<"0", "b">>) /\ RunEnd(src, o + 3, BinDigits) = o + 3) =>
                /\ tokens' = tokens
                /\ errors' = Append(errors, LexerError("InvalidBinaryLiteral", <<"0", "b">>,
                                                       ByteLocation(src, o)))]_vars

\* lex() has returned from a text in which '0x' or '0b' stands after a token
\* and no digit of its kind follows.
C15_Witness ==
    /\ pc = "done"
    /\ Len(errors) = 1
    /\ errors[1].kind \in {"InvalidHexLiteral", "InvalidBinaryLiteral"}
    /\ errors[1].arg \in {<<"0", "x">>, <<"0", "b">>}
    /\ errors[1].loc.offset > 0
    /\ Len(tokens) >= 1
    /\ tokens[1].span.end <= errors[1].loc.offset

(***************************************************************************)
(* Operators                                                               *)
(***************************************************************************)
\* The operator tokens a text spells, by the tables.
OperatorNamed(text) ==
    { [tag |-> "BinaryOperator", val |-> <<n>>] : n \in binary_try_from(text) }
      \cup { [tag |-> "UnaryOperator", val |-> <<n>>] : n \in unary_try_from(text) }

\* C16: a pass that starts at an operator character pushes, with no diagnostic,
\* the operator the two characters at its start spell when they spell one, and
\* otherwise the operator its first character spells.
C16_LongestOperator ==
    [][(pc = "lexing" /\ ~is_eof(src, cur) /\ lex_pass(src, cur).branch = "operator") =>
          LET o == PassStart
              tok == tokens'[Len(tokens')]
              two == SubSeq(src, o + 1, o + 2)
              one == SubSeq(src, o + 1, o + 1)
          IN  /\ errors' = errors
              /\ Len(tokens') = Len(tokens) + 1
              /\ IF o + 2 <= Len(src) /\ OperatorNamed(two) # {}
                 THEN tok.src = two /\ tok.token_type \in OperatorNamed(two)
                 ELSE tok.src = one /\ tok.token_type \in OperatorNamed(one)]_vars

\* lex() has returned == then = from '===' .
C16_Witness ==
    /\ pc = "done"
    /\ src = <<"=", "=", "=">>
    /\ Len(tokens) = 2
    /\ tokens[1].token_type.val = <<"EqEq">>
    /\ tokens[2].token_type.val = <<"Eq">>

(***************************************************************************)
(* lex_strict() and the cursor                                             *)
(***************************************************************************)
\* C18: lex_strict() of a text fails with the first diagnostic of lex() and
\* returns no token when lex() reports a diagnostic, and otherwise returns the
\* token list of lex().
C18_StrictAgreesWithLex ==
    pc = "done" =>
        LET strict_result == lex_strict(src) IN
        IF errors # <<>>
        THEN /\ ~strict_result.ok
             /\ strict_result.err = <<errors[1]>>
             /\ strict_result.tokens = <<>>
        ELSE /\ strict_result.ok
             /\ strict_result.tokens = tokens
             /\ strict_result.err = <<>>

\* lex() has returned tokens and two diagnostics of different kinds.
C18_Witness ==
    /\ pc = "done"
    /\ Len(tokens) >= 1
    /\ Len(errors) >= 2
    /\ errors[1].kind # errors[Len(errors)].kind

\* C19: the cursor's line is 1 plus the newlines consumed and its column 1 plus
\* the characters consumed since the last of them; the same holds for the
\* cursor states that tokens and diagnostics have recorded as their places.
C19_LineColumn ==
    /\ current_location(cur) = ByteLocation(src, pos)
    /\ \A i \in 1..Len(tokens) :
        /\ tokens[i].start = ByteLocation(src, tokens[i].span.start)
        /\ tokens[i].end = ByteLocation(src, tokens[i].span.end)
    /\ \A k \in 1..Len(errors) : errors[k].loc = ByteLocation(src, errors[k].loc.offset)

\* lex() has passed a newline and then a block comment, and has lexed a token
\* after the comment on that line.
C19_Witness ==
    /\ line >= 2
    /\ Len(tokens) >= 1
    /\ tokens[Len(tokens)].start.line = line
    /\ tokens[Len(tokens)].start.column >= 5
    /\ CommentText(frags)
    /\ errors = <<>>

(***************************************************************************)
(* Expressions                                                             *)
(***************************************************************************)
\* How tightly a binary operator binds: equality, term, factor.
Precedence(op) ==
    CASE op \in {"EqEq", "NotEq"} -> 1
      [] op \in {"Plus", "Minus"} -> 2
      [] op \in {"Star", "Slash"} -> 3

\* The token list is an expression statement of operands and binary operators.
IsExprStatement(ts) ==
    /\ Len(ts) >= 2
    /\ Len(ts) % 2 = 0
    /\ ts[Len(ts)].token_type = Punct("Semicolon")
    /\ \A i \in 1..(Len(ts) - 1) :
         IF i % 2 = 1 THEN ts[i].token_type.tag = "Identifier"
         ELSE /\ ts[i].token_type.tag = "BinaryOperator"
              /\ ts[i].token_type.val[1] \in ExprOperators

\* The operands and operators of an expression tree from left to right.
RECURSIVE InOrder(_)
InOrder(e) ==
    IF e.node = "BinaryOp"
    THEN InOrder(e.left) \o <<BinOp(e.operator)>> \o InOrder(e.right)
    ELSE <<[tag |-> "Identifier", val |-> e.name]>>

\* No operator of the tree has an operand whose operator binds looser.
RECURSIVE TighterBelow(_)
TighterBelow(e) ==
    e.node = "BinaryOp" =>
        /\ \A sub \in {e.left, e.right} :
             sub.node = "BinaryOp" => Precedence(sub.operator) >= Precedence(e.operator)
        /\ TighterBelow(e.left)
        /\ TighterBelow(e.right)

Leaf(i) == [node |-> "Identifier", name |-> <<OperandNames[i]>>]

\* C20: an expression of operands and binary operators parses, with no
\* diagnostic, to a tree over the same operands and operators in the same
\* order in which no operator has an operand bound by a looser operator, with
\* equality loosest, then + and -, then * and /: a + b * c parses to
\* BinaryOp(a, +, BinaryOp(b, *, c)) and a == b + c to
\* BinaryOp(a, ==, BinaryOp(b, +, c)).
C20_Precedence ==
    (IsExprStatement(ptokens) /\ ppc = "done") =>
        /\ perrors = <<>>
        /\ Len(ast) = 1
        /\ ast[1].node = "Expression"
        /\ InOrder(ast[1].expr)
              = [i \in 1..(Len(ptokens) - 1) |-> ptokens[i].token_type]
        /\ TighterBelow(ast[1].expr)
        /\ ptokens = MkTokens(ExprStatement(<<"Plus", "Star">>)) =>
              ast[1].expr = BinaryOp(Leaf(1), "Plus", BinaryOp(Leaf(2), "Star", Leaf(3)))
        /\ ptokens = MkTokens(ExprStatement(<<"EqEq", "Plus">>)) =>
              ast[1].expr = BinaryOp(Leaf(1), "EqEq", BinaryOp(Leaf(2), "Plus", Leaf(3)))

\* parse() has returned the tree of a + b * c.
C20_Witness ==
    /\ ppc = "done"
    /\ ptokens = MkTokens(ExprStatement(<<"Plus", "Star">>))
    /\ Len(ast) = 1
    /\ ast[1].expr.right.node = "BinaryOp"

\* The operators of an expression statement, from left to right.
OperatorsOf(ts) == [k \in 1..((Len(ts) - 2) \div 2) |-> ts[2 * k].token_type.val[1]]

\* The tree of the first n operands in which every operator has the whole
\* chain to its left as its left operand.
RECURSIVE LeftNested(_, _)
LeftNested(ts, n) ==
    IF n = 1 THEN [node |-> "Identifier", name |-> ts[1].token_type.val]
    ELSE BinaryOp(LeftNested(ts, n - 1), ts[2 * n - 2].token_type.val[1],
                  [node |-> "Identifier", name |-> ts[2 * n - 1].token_type.val])

\* C21: a chain of operands joined by operators of one precedence level parses,
\* with no diagnostic, to the tree that nests to the left: a op1 b op2 c parses
\* to BinaryOp(BinaryOp(a, op1, b), op2, c).
C21_LeftAssociative ==
    (/\ ppc = "done"
     /\ IsExprStatement(ptokens)
     /\ \A i, j \in 1..Len(OperatorsOf(ptokens)) :
           Precedence(OperatorsOf(ptokens)[i]) = Precedence(OperatorsOf(ptokens)[j])) =>
        /\ perrors = <<>>
        /\ Len(ast) = 1
        /\ ast[1] = [node |-> "Expression",
                     expr |-> LeftNested(ptokens, Len(ptokens) \div 2)]

\* parse() has returned the tree of a - b + c - d.
C21_Witness ==
    /\ ppc = "done"
    /\ ptokens = MkTokens(ExprStatement(<<"Minus", "Plus", "Minus">>))
    /\ Len(ast) = 1
    /\ ast[1].expr = BinaryOp(BinaryOp(BinaryOp(Leaf(1), "Minus", Leaf(2)), "Plus", Leaf(3)),
                              "Minus", Leaf(4))

(***************************************************************************)
(* Statements                                                              *)
(***************************************************************************)
\* C22: the statement 'target = value ;' whose target is a literal gives an
\* InvalidAssignmentTarget diagnostic and no Assignment node, and the one whose
\* target is an identifier gives Assignment{target, value} and no diagnostic.
C22_AssignmentTarget ==
    (/\ ppc = "done"
     /\ Len(ptokens) = 4
     /\ ptokens[2].token_type = BinOp("Eq")
     /\ ptokens[4].token_type = Punct("Semicolon")
     /\ \A i \in {1, 3} : ptokens[i].token_type.tag
                             \in {"Identifier", "IntLiteral", "StringLiteral"}) =>
        IF ptokens[1].token_type.tag = "Identifier"
        THEN /\ perrors = <<>>
             /\ Len(ast) = 1
             /\ ast[1].node = "Expression"
             /\ ast[1].expr.node = "Assignment"
             /\ ast[1].expr.target = [node |-> "Identifier", name |-> ptokens[1].token_type.val]
             /\ ast[1].expr.value.node \in {"Identifier", "Literal"}
        ELSE /\ \E i \in 1..Len(perrors) : perrors[i].kind = "InvalidAssignmentTarget"
             /\ \A i \in 1..Len(ast) :
                  ~(ast[i].node = "Expression" /\ ast[i].expr.node = "Assignment")

\* The places of a token list where a postfix form starts, when its arguments,
\* indexes and members are single identifiers.
FormStarts(ts) ==
    { i \in 2..Len(ts) : ts[i].token_type.tag \in {"LeftParen", "LeftBracket", "Period"} }

\* The tokens from s to e are '(' identifiers separated by ',' ')', or
\* '[' identifier ']', or '.' identifier.
IsPostfixForm(ts, s, e) ==
    LET tag(i) == ts[i].token_type.tag IN
    CASE tag(s) = "LeftParen" ->
             /\ e > s
             /\ tag(e) = "RightParen"
             /\ (e = s + 1 \/ (e - s) % 2 = 0)
             /\ \A i \in (s + 1)..(e - 1) :
                  tag(i) = (IF (i - s) % 2 = 1 THEN "Identifier" ELSE "Comma")
      [] tag(s) = "LeftBracket" ->
             e = s + 2 /\ tag(s + 1) = "Identifier" /\ tag(e) = "RightBracket"
      [] tag(s) = "Period" -> e = s + 1 /\ tag(e) = "Identifier"

\* The end of the form that starts at s: the token before the next start or
\* before the last token.
FormEnd(ts, s) ==
    IF \E i \in FormStarts(ts) : i > s
    THEN (CHOOSE i \in FormStarts(ts) : i > s /\ \A j \in FormStarts(ts) : j > s => i <= j) - 1
    ELSE Len(ts) - 1

\* An identifier, postfix forms, and ';'.
IsPostfixChain(ts) ==
    /\ Len(ts) >= 2
    /\ ts[1].token_type.tag = "Identifier"
    /\ ts[Len(ts)].token_type = Punct("Semicolon")
    /\ Len(ts) > 2 => 2 \in FormStarts(ts)
    /\ \A s \in FormStarts(ts) : IsPostfixForm(ts, s, FormEnd(ts, s))

\* The expression of the tokens up to e, the end of a form or the first token:
\* the last form wraps the expression of the tokens before it.
RECURSIVE PostfixTree(_, _)
PostfixTree(ts, e) ==
    LET name(i) == [node |-> "Identifier", name |-> ts[i].token_type.val] IN
    IF e = 1 THEN name(1)
    ELSE LET s == CHOOSE i \in FormStarts(ts) : i <= e /\ \A j \in FormStarts(ts) : j <= e => j <= i
             inner == PostfixTree(ts, s - 1)
         IN  CASE ts[s].token_type.tag = "LeftParen" ->
                      [node |-> "Call", callee |-> inner,
                       arguments |-> [k \in 1..((e - s) \div 2) |-> name(s + 2 * k - 1)]]
               [] ts[s].token_type.tag = "LeftBracket" ->
                      [node |-> "Index", target |-> inner, index |-> name(s + 1)]
               [] ts[s].token_type.tag = "Period" ->
                      [node |-> "MemberAccess", target |-> inner,
                       member |-> ts[s + 1].token_type.val]

\* C23: an identifier followed by postfix forms parses, with no diagnostic, to
\* the expression in which each form, '(args)' as Call, '[expr]' as Index and
\* '.identifier' as MemberAccess, wraps the expression of everything before
\* it, and the statement ends at the ';' after the last form; a.b(c)[d] parses
\* to Index{Call{MemberAccess{a, b}, [c]}, d}.
C23_PostfixChain ==
    (ppc = "done" /\ IsPostfixChain(ptokens)) =>
        /\ perrors = <<>>
        /\ ast = <<[node |-> "Expression", expr |-> PostfixTree(ptokens, Len(ptokens) - 1)]>>
        /\ ppos = Len(ptokens)

\* parse() has returned the tree of a.b(c)[d].
C23_Witness ==
    /\ ppc = "done"
    /\ Len(ptokens) = 10
    /\ Len(ast) = 1
    /\ ast[1].node = "Expression"
    /\ ast[1].expr =
         [node |-> "Index",
          target |-> [node |-> "Call",
                      callee |-> [node |-> "MemberAccess",
                                  target |-> [node |-> "Identifier", name |-> <<"a">>],
                                  member |-> <<"b">>],
                      arguments |-> <<[node |-> "Identifier", name |-> <<"c">>]>>],
          index |-> [node |-> "Identifier", name |-> <<"d">>]]

\* The tags of a token list, an operator or a keyword by its name.
TagsOf(ts) ==
    [i \in 1..Len(ts) |->
        IF ts[i].token_type.tag \in {"Keyword", "BinaryOperator", "UnaryOperator"}
        THEN ts[i].token_type.val[1]
        ELSE ts[i].token_type.tag]

\* One 'let' and then names, ':', '=', integers, with at most one ':' and one
\* '=' and with no ';' before the last token: a single let statement, whole or not.
IsLetCandidate(ts) ==
    /\ Len(ts) >= 1
    /\ TagsOf(ts)[1] = "Let"
    /\ \A i \in 2..Len(ts) :
         /\ TagsOf(ts)[i] \in {"Identifier", "Colon", "Eq", "IntLiteral", "Semicolon"}
         /\ TagsOf(ts)[i] = "Semicolon" => i = Len(ts)
         /\ \A j \in 2..Len(ts) : (TagsOf(ts)[i] = TagsOf(ts)[j] /\ TagsOf(ts)[i] \in {"Colon", "Eq"})
                                     => i = j

\* C24: 'let' name, then ': Type' or not, then '= expression' or not, then ';'
\* parses with no diagnostic to exactly one LetDeclaration of that name whose
\* type_annotation and initializer are Some for the parts written and None for
\* the others; a let statement that lacks its name, the type after its ':',
\* the expression after its '=' or its ';' gives at least one diagnostic and no
\* LetDeclaration.
C24_LetStatement ==
    (ppc = "done" /\ IsLetCandidate(ptokens)) =>
        LET tags == TagsOf(ptokens)
            n == Len(ptokens)
            typed == n >= 5 /\ SubSeq(tags, 3, 4) = <<"Colon", "Identifier">>
            rest == IF typed THEN 5 ELSE 3
            initialized == /\ n >= rest + 2
                           /\ tags[rest] = "Eq"
                           /\ tags[rest + 1] \in {"Identifier", "IntLiteral"}
            stop == IF initialized THEN rest + 2 ELSE rest
            value == ptokens[rest + 1].token_type
        IN  IF n >= 3 /\ tags[2] = "Identifier" /\ stop = n /\ tags[n] = "Semicolon"
            THEN /\ perrors = <<>>
                 /\ ast = <<[node |-> "LetDeclaration",
                             name |-> ptokens[2].token_type.val,
                             type_annotation |->
                                 IF typed
                                 THEN <<[type |-> "Named", name |-> ptokens[4].token_type.val]>>
                                 ELSE <<>>,
                             initializer |->
                                 IF ~initialized THEN <<>>
                                 ELSE IF value.tag = "IntLiteral"
                                 THEN <<Literal("Int", value.val)>>
                                 ELSE <<[node |-> "Identifier", name |-> value.val]>>]>>
            ELSE /\ Len(perrors) >= 1
                 /\ \A i \in 1..Len(ast) : ast[i].node # "LetDeclaration"

\* parse() has returned the declaration of 'let a : T = 1 ;'.
C24_Witness ==
    /\ ppc = "done"
    /\ TagsOf(ptokens) = <<"Let", "Identifier", "Colon", "Identifier", "Eq", "IntLiteral",
                           "Semicolon">>
    /\ Len(ast) = 1
    /\ ast[1].node = "LetDeclaration"
    /\ ast[1].type_annotation # <<>>
    /\ ast[1].initializer # <<>>

\* C25: an operand that is the whole token list, followed by ';' or not, parses
\* to one expression statement with no diagnostic.
C25_OptionalSemicolon ==
    (/\ ppc = "done"
     /\ Len(ptokens) \in {1, 2}
     /\ TagsOf(ptokens)[1] \in {"IntLiteral", "StringLiteral"}
     /\ Len(ptokens) = 2 => TagsOf(ptokens)[2] = "Semicolon") =>
        /\ perrors = <<>>
        /\ Len(ast) = 1
        /\ ast[1].node = "Expression"
        /\ ast[1].expr.node = "Literal"
        /\ ast[1].expr.value = ptokens[1].token_type.val

\* The statements of a list and the statements nested in its blocks and
\* function bodies.
RECURSIVE StatementsIn(_)
StatementsIn(list) ==
    UNION { {list[i]} \cup (IF list[i].node = "Block" THEN StatementsIn(list[i].statements)
                            ELSE IF list[i].node = "FunctionDeclaration"
                            THEN StatementsIn(list[i].body)
                            ELSE {}) : i \in 1..Len(list) }

\* How many statements of a kind a list holds, nested ones included.
RECURSIVE CountOf(_, _)
CountOf(list, kind) ==
    IF list = <<>> THEN 0
    ELSE LET s == Head(list) IN
         (IF s.node = kind THEN 1 ELSE 0)
           + (IF s.node = "Block" THEN CountOf(s.statements, kind)
              ELSE IF s.node = "FunctionDeclaration" THEN CountOf(s.body, kind)
              ELSE 0)
           + CountOf(Tail(list), kind)

\* C26: every Return statement that parse() has produced, nested ones
\* included, holds an expression; there are at most as many Return statements
\* as 'return' keywords that are followed by something else than ';' or the
\* end of input; and a token list that starts with 'return' directly followed
\* by ';' or by the end of input gives a first diagnostic about that place.
C26_ReturnValue ==
    /\ \A s \in StatementsIn(ast) :
         s.node = "Return" => /\ Len(s.value) = 1
                              /\ s.value[1].node \in {"Identifier", "Literal", "BinaryOp",
                                                      "UnaryOp", "Assignment", "Call", "Index",
                                                      "MemberAccess", "Grouped", "Array",
                                                      "InterpolatedString"}
    /\ CountOf(ast, "Return")
         <= Cardinality({ i \in 1..(Len(ptokens) - 1) :
                             /\ TagsOf(ptokens)[i] = "Return"
                             /\ TagsOf(ptokens)[i + 1] # "Semicolon" })
    /\ (/\ ppc = "done"
        /\ Len(ptokens) >= 1
        /\ TagsOf(ptokens)[1] = "Return"
        /\ Len(ptokens) >= 2 => TagsOf(ptokens)[2] = "Semicolon") =>
          /\ Len(perrors) >= 1
          /\ IF Len(ptokens) = 1
             THEN perrors[1].kind = "UnexpectedEOF"
             ELSE perrors[1].kind = "UnexpectedToken" /\ perrors[1].found = <<ptokens[2]>>

\* parse() has returned a function whose body returns an expression, after a
\* 'return ;' that gave a diagnostic.
C26_Witness ==
    /\ ppc = "done"
    /\ Len(ptokens) >= 3
    /\ SubSeq(TagsOf(ptokens), 1, 3) = <<"Return", "Semicolon", "Return">>
    /\ Len(perrors) = 1
    /\ CountOf(ast, "Return") = 1

(***************************************************************************)
(* Recovery                                                                *)
(***************************************************************************)
\* A place where recovery may stop: the end of the token list, after a ';',
\* or before 'fn', 'let' or 'return'.
StopPlace(ts, q) ==
    \/ q = Len(ts)
    \/ q >= 1 /\ TagsOf(ts)[q] = "Semicolon"
    \/ q < Len(ts) /\ TagsOf(ts)[q + 1] \in {"Fn", "Let", "Return"}

\* C27: a step of parse() that records a diagnostic leaves the parser beyond
\* the place of the error, unless that was the end of the token list, and at
\* the first place from there on that is the end of the list, directly after
\* a ';', or directly before 'fn', 'let' or 'return'.
C27_SynchronizeStops ==
    [][(ppc = "parsing" /\ perrors' # perrors) =>
          \E ub \in UBOutcomes :
             LET r == parse_statement(ptokens, ppos, ub)
                 from == IF r.pos < Len(ptokens) THEN r.pos + 1 ELSE r.pos
             IN  /\ r.st = "err"
                 /\ perrors' = perrors \o r.err
                 /\ ppos' >= from
                 /\ ppos' > ppos
                 /\ StopPlace(ptokens, ppos')
                 /\ \A q \in from..(ppos' - 1) : ~StopPlace(ptokens, q)]_vars

\* Recovery has stopped before a 'let' that does not follow a ';', with
\* tokens skipped on the way.
C27_Witness ==
    /\ ppc = "parsing"
    /\ Len(perrors) = 1
    /\ ppos >= 2
    /\ ppos < Len(ptokens)
    /\ TagsOf(ptokens)[ppos + 1] = "Let"
    /\ TagsOf(ptokens)[ppos] # "Semicolon"
    /\ ast = <<>>

\* The statement that starts after p tokens: its length, whether it is whole,
\* and the node a whole one stands for; length 0 when the tokens are none of
\* the statements known here.
StatementAt(ts, p) ==
    LET tags == SubSeq(TagsOf(ts), p + 1, Len(ts))
        starts(pat) == Len(tags) >= Len(pat) /\ SubSeq(tags, 1, Len(pat)) = pat
        name(i) == [node |-> "Identifier", name |-> ts[p + i].token_type.val]
        expression(i) == [node |-> "Expression", expr |-> name(i)]
        whole(n, stmt) == [len |-> n, whole |-> TRUE, node |-> <<stmt>>]
        broken(n) == [len |-> n, whole |-> FALSE, node |-> <<>>]
        header == <<"Fn", "Identifier", "LeftParen", "RightParen">>
    IN  IF starts(<<"Identifier", "Semicolon">>) THEN whole(2, expression(1))
        ELSE IF starts(<<"Let", "Identifier", "Semicolon">>)
        THEN whole(3, [node |-> "LetDeclaration", name |-> ts[p + 2].token_type.val,
                       type_annotation |-> <<>>, initializer |-> <<>>])
        ELSE IF starts(<<"Return", "Identifier", "Semicolon">>)
        THEN whole(3, [node |-> "Return", value |-> <<name(2)>>])
        ELSE IF starts(<<"LeftBrace", "Identifier", "Semicolon", "RightBrace">>)
        THEN whole(4, [node |-> "Block", statements |-> <<expression(2)>>])
        ELSE IF starts(header \o <<"LeftBrace", "Identifier", "Semicolon", "RightBrace">>)
        THEN whole(8, [node |-> "FunctionDeclaration", name |-> ts[p + 2].token_type.val,
                       parameters |-> <<>>, return_type |-> <<>>,
                       body |-> <<expression(6)>>])
        \* 'let b' with its ';' missing, before a keyword or the end
        ELSE IF /\ starts(<<"Let", "Identifier">>)
                /\ Len(tags) >= 3 => tags[3] \in {"Let", "Fn", "Return"}
        THEN broken(2)
        ELSE IF starts(<<"Let", "Semicolon">>) \/ starts(<<"Return", "Semicolon">>)
        THEN broken(2)
        ELSE IF starts(<<"LeftBrace", "Identifier", "Identifier", "Semicolon", "RightBrace">>)
        THEN broken(5)
        ELSE IF starts(header \o <<"LeftBrace", "Let", "Semicolon", "RightBrace">>)
        THEN broken(8)
        ELSE broken(0)

\* The statements of a token list from p on, up to the first unknown one.
RECURSIVE StatementsFrom(_, _)
StatementsFrom(ts, p) ==
    IF p >= Len(ts) THEN <<>>
    ELSE LET s == StatementAt(ts, p) IN
         IF s.len = 0 THEN <<s>> ELSE <<s>> \o StatementsFrom(ts, p + s.len)

\* The nodes of the whole statements, in order.
RECURSIVE WholeNodes(_)
WholeNodes(stmts) ==
    IF stmts = <<>> THEN <<>> ELSE Head(stmts).node \o WholeNodes(Tail(stmts))

\* C28: a token list that is a sequence of statements of which exactly one is
\* broken (a let or return statement without its name, expression or ';', also
\* just before the keyword of the next statement, or a block or function body
\* that holds a broken statement) gives exactly one diagnostic and the nodes of
\* all other statements, in order.
C28_OneDiagnosticPerStatement ==
    LET stmts == StatementsFrom(ptokens, 0) IN
    (/\ ppc = "done"
     /\ \A i \in 1..Len(stmts) : stmts[i].len > 0
     /\ Cardinality({ i \in 1..Len(stmts) : ~stmts[i].whole }) = 1) =>
        /\ Len(perrors) = 1
        /\ ast = WholeNodes(stmts)

(***************************************************************************)
(* Interpolated strings                                                    *)
(***************************************************************************)
\* The expressions of the fragments a, a==b and a.b.
FragmentExpression(code) ==
    LET id(n) == [node |-> "Identifier", name |-> <<n>>] IN
    CASE code = <<"a">> -> <<id("a")>>
      [] code = <<"a", "=", "=", "b">> -> <<BinaryOp(id("a"), "EqEq", id("b"))>>
      [] code = <<"a", ".", "b">> ->
             <<[node |-> "MemberAccess", target |-> id("a"), member |-> <<"b">>]>>
      [] OTHER -> <<>>

\* The first InterpolatedString token of a list, or 0.
StringAt(ts) ==
    IF \E i \in 1..Len(ts) : ts[i].token_type.tag = "InterpolatedString"
    THEN CHOOSE i \in 1..Len(ts) :
            /\ ts[i].token_type.tag = "InterpolatedString"
            /\ \A j \in 1..(i - 1) : ts[j].token_type.tag # "InterpolatedString"
    ELSE 0

\* The token list is a string token and ';', or 'a = ' string token ';', and
\* every fragment of the string is one of the expressions above.
IsStringStatement(ts) ==
    LET i == StringAt(ts)
        parts == ts[i].token_type.val
    IN  /\ i \in {1, 3}
        /\ Len(ts) = i + 1
        /\ TagsOf(ts)[i + 1] = "Semicolon"
        /\ i = 3 => SubSeq(TagsOf(ts), 1, 2) = <<"Identifier", "Eq">>
        /\ \A k \in 1..Len(parts) :
             parts[k].kind = "Interpolation" => FragmentExpression(parts[k].s) # <<>>

\* C29: an InterpolatedString token parses, with no diagnostic, to an
\* InterpolatedString expression with one part for each part of the token, in
\* order: the same Text for a Text, and for an Interpolation the expression of
\* its fragment alone; the outer parser moves over the string token only, so
\* the ';' after it ends the statement.
C29_InterpolatedString ==
    (ppc = "done" /\ IsStringStatement(ptokens)) =>
        LET i == StringAt(ptokens)
            parts == ptokens[i].token_type.val
            string == [node |-> "InterpolatedString",
                       parts |-> [k \in 1..Len(parts) |->
                                     IF parts[k].kind = "Text"
                                     THEN [kind |-> "Text", s |-> parts[k].s]
                                     ELSE [kind |-> "Expression",
                                           expr |-> FragmentExpression(parts[k].s)[1]]]]
        IN  /\ perrors = <<>>
            /\ ppos = Len(ptokens)
            /\ ast = <<[node |-> "Expression",
                        expr |-> IF i = 1 THEN string
                                 ELSE [node |-> "Assignment",
                                       target |-> [node |-> "Identifier",
                                                   name |-> ptokens[1].token_type.val],
                                       value |-> string]]>>

\* parse() has returned the string of a text, a fragment and a text, as the
\* value of an assignment.
C29_Witness ==
    /\ ppc = "done"
    /\ Len(ptokens) = 4
    /\ StringAt(ptokens) = 3
    /\ Len(ast) = 1
    /\ ast[1].expr.node = "Assignment"
    /\ ast[1].expr.value.node = "InterpolatedString"
    /\ Len(ast[1].expr.value.parts) = 3
    /\ ast[1].expr.value.parts[1].kind = "Text"
    /\ ast[1].expr.value.parts[2] = [kind |-> "Expression",
                                     expr |-> [node |-> "Identifier", name |-> <<"a">>]]
    /\ ast[1].expr.value.parts[3].kind = "Text"

\* C30: when the first expression the parser meets is a string token whose
\* fragment does not lex ('@') or does not parse ('' and 'a='), whether the
\* token is the first of the list or not, parse() does not abort and its first
\* diagnostic is ExpectedExpression at the string token.
C30_FragmentFailure ==
    LET i == StringAt(ptokens) IN
    (/\ i \in {1, 2}
     /\ i = 2 => TagsOf(ptokens)[1] \in {"Not", "LeftParen", "Return"}
     /\ ptokens[i].token_type.val
           \in { <<InterpolationPart(code)>> : code \in {<<"@">>, <<>>, <<"a", "=">>} }) =>
        /\ ppc # "aborted"
        /\ ppc = "done" =>
             /\ Len(perrors) >= 1
             /\ perrors[1].kind = "ExpectedExpression"
             /\ perrors[1].loc \in {<<ptokens[i].start>>, <<ptokens[i].end>>}

(***************************************************************************)
(* Function declarations                                                   *)
(***************************************************************************)
\* What a token list that starts with 'fn' name '(' is made of: the ')' that
\* closes the parameters, the places its parameters start at, whether each is
\* a name or a name ': Type', whether '-> Type' is written, and the place
\* where the body has to start.
FunctionHeader(ts) ==
    LET tags == TagsOf(ts)
        close == CHOOSE i \in 4..Len(ts) :
                     tags[i] = "RightParen" /\ \A j \in 4..(i - 1) : tags[j] # "RightParen"
        starts == IF close = 4 THEN {}
                  ELSE {4} \cup { i + 1 : i \in { j \in 4..(close - 1) : tags[j] = "Comma" } }
        stop(s) == IF \E i \in starts : i > s
                   THEN (CHOOSE i \in starts : i > s /\ \A j \in starts : j > s => i <= j) - 2
                   ELSE close - 1
        arrow == close + 2 <= Len(ts) /\ tags[close + 1] = "ThinArrow"
                                      /\ tags[close + 2] = "Identifier"
    IN  [close |-> close,
         starts |-> starts,
         typed |-> [s \in starts |-> stop(s) = s + 2],
         parameters_ok |-> \A s \in starts :
                              \/ SubSeq(tags, s, stop(s)) = <<"Identifier">>
                              \/ SubSeq(tags, s, stop(s)) = <<"Identifier", "Colon", "Identifier">>,
         arrow |-> arrow,
         body |-> IF arrow THEN close + 3 ELSE close + 1]

\* 'fn' name '(' parameters ')', with '-> Type' or not.
IsFunctionHeader(ts) ==
    /\ Len(ts) >= 4
    /\ SubSeq(TagsOf(ts), 1, 3) = <<"Fn", "Identifier", "LeftParen">>
    /\ \E i \in 4..Len(ts) : TagsOf(ts)[i] = "RightParen"
    /\ FunctionHeader(ts).parameters_ok
    /\ FunctionHeader(ts).arrow \/ FunctionHeader(ts).close = Len(ts)
         \/ TagsOf(ts)[FunctionHeader(ts).close + 1] # "ThinArrow"

\* The header is followed by '{', whole statements and '}' and nothing else.
IsFunctionDeclaration(ts) ==
    /\ IsFunctionHeader(ts)
    /\ FunctionHeader(ts).body < Len(ts)
    /\ TagsOf(ts)[FunctionHeader(ts).body] = "LeftBrace"
    /\ TagsOf(ts)[Len(ts)] = "RightBrace"
    /\ LET inside == StatementsFrom(SubSeq(ts, FunctionHeader(ts).body + 1, Len(ts) - 1), 0)
       IN  \A i \in 1..Len(inside) : inside[i].len > 0 /\ inside[i].whole

\* The parameters of a header, in the order written.
ParametersOf(ts) ==
    LET h == FunctionHeader(ts)
        nth(k) == CHOOSE s \in h.starts : Cardinality({ x \in h.starts : x < s }) = k - 1
    IN  [k \in 1..Cardinality(h.starts) |->
            [name |-> ts[nth(k)].token_type.val,
             type_annotation |->
                 IF h.typed[nth(k)]
                 THEN <<[type |-> "Named", name |-> ts[nth(k) + 2].token_type.val]>>
                 ELSE <<>>]]

\* C31: a function declaration with parameters that are names or names with
\* ': Type', with '-> Type' or not, and with a body of whole statements
\* parses with no diagnostic to one FunctionDeclaration with those parameters
\* in order, that return type and those statements in order;
\* fn e(a: T, b: T) -> T { return a + b; } has the body
\* Return(BinaryOp(a, +, b)); and a header that is not followed by '{' does
\* not abort parse() and gives a diagnostic and no FunctionDeclaration.
C31_FunctionDeclaration ==
    /\ (ppc = "done" /\ IsFunctionDeclaration(ptokens)) =>
          LET h == FunctionHeader(ptokens) IN
          /\ perrors = <<>>
          /\ ast = <<[node |-> "FunctionDeclaration",
                      name |-> ptokens[2].token_type.val,
                      parameters |-> ParametersOf(ptokens),
                      return_type |->
                          IF h.arrow
                          THEN <<[type |-> "Named",
                                  name |-> ptokens[h.close + 2].token_type.val]>>
                          ELSE <<>>,
                      body |-> WholeNodes(StatementsFrom(
                                   SubSeq(ptokens, h.body + 1, Len(ptokens) - 1), 0))]>>
    /\ (/\ ppc = "done"
        /\ IsFunctionHeader(ptokens)
        /\ Len(ptokens) = FunctionHeader(ptokens).body + 6
        /\ SubSeq(TagsOf(ptokens), FunctionHeader(ptokens).body, Len(ptokens))
              = <<"LeftBrace", "Return", "Identifier", "Plus", "Identifier", "Semicolon",
                  "RightBrace">>) =>
          LET b == FunctionHeader(ptokens).body
              name(i) == [node |-> "Identifier", name |-> ptokens[i].token_type.val]
          IN  /\ perrors = <<>>
              /\ Len(ast) = 1
              /\ ast[1].node = "FunctionDeclaration"
              /\ ast[1].parameters = ParametersOf(ptokens)
              /\ ast[1].body = <<[node |-> "Return",
                                  value |-> <<BinaryOp(name(b + 2), "Plus", name(b + 4))>>]>>
    /\ (/\ IsFunctionHeader(ptokens)
        /\ \/ FunctionHeader(ptokens).body > Len(ptokens)
           \/ TagsOf(ptokens)[FunctionHeader(ptokens).body] # "LeftBrace") =>
          /\ ppc # "aborted"
          /\ ppc = "done" => /\ Len(perrors) >= 1
                             /\ CountOf(ast, "FunctionDeclaration") = 0

\* ------------------------------------------------------------------------
\* Diagnostic codes
\* ------------------------------------------------------------------------

\* error_codes!: the value behind each code name
error_codes ==
    [E0000 |-> 0, E0001 |-> 1, E0002 |-> 2, E0003 |-> 3, E0004 |-> 4, E0005 |-> 5,
     E0006 |-> 6,
     E1000 |-> 1000, E1001 |-> 1001, E1002 |-> 1002, E1010 |-> 1010, E1011 |-> 1011,
     E1020 |-> 1020, E1021 |-> 1021, E1030 |-> 1030, E1040 |-> 1040, E1041 |-> 1041,
     E1042 |-> 1042]

\* The variants of CarbideLexerError and of CarbideParserError
LexerErrorKinds ==
    {"NonASCIIChar", "UnexpectedEOF", "UnexpectedChar", "InvalidFloatLiteral",
     "InvalidIntegerLiteral", "InvalidHexLiteral", "InvalidBinaryLiteral",
     "CastIntFailed", "CastKeywordFailed", "CastBinaryOpFailed", "CastUnaryOpFailed",
     "UnclosedComment", "UnclosedString", "UnmatchedBrace"}

ParserErrorKinds ==
    {"UnexpectedEOF", "UnexpectedToken", "ExpectedIdentifier", "ExpectedExpression",
     "InvalidAssignmentTarget", "TooManyParameters", "TooManyArguments",
     "BreakOutsideLoop", "ContinueOutsideLoop", "ReturnOutsideFunction", "CastFailed"}

\* CarbideLexerError::code
lexer_code(e) ==
    CASE e.kind = "NonASCIIChar"   -> error_codes.E0001
      [] e.kind = "UnexpectedEOF"  -> error_codes.E0002
      [] e.kind = "UnexpectedChar" -> error_codes.E0003
      [] e.kind = "UnclosedString" -> error_codes.E0004
      [] e.kind = "UnmatchedBrace" -> error_codes.E0005
      [] e.kind \in {"InvalidFloatLiteral", "InvalidIntegerLiteral",
                     "InvalidHexLiteral", "InvalidBinaryLiteral"} -> error_codes.E0006
      [] OTHER -> error_codes.E0000

\* CarbideParserError::code with the end-of-input kind given the code of the lexer's
\* kind of the same name
parser_code_of_lexer_eof(e) ==
    CASE e.kind = "UnexpectedEOF"           -> error_codes.E0002
      [] e.kind = "UnexpectedToken"         -> error_codes.E1002
      [] e.kind = "ExpectedIdentifier"      -> error_codes.E1010
      [] e.kind = "ExpectedExpression"      -> error_codes.E1011
      [] e.kind = "TooManyParameters"       -> error_codes.E1020
      [] e.kind = "TooManyArguments"        -> error_codes.E1021
      [] e.kind = "InvalidAssignmentTarget" -> error_codes.E1030
      [] e.kind = "BreakOutsideLoop"        -> error_codes.E1040
      [] e.kind = "ContinueOutsideLoop"     -> error_codes.E1041
      [] e.kind = "ReturnOutsideFunction"   -> error_codes.E1042
      [] OTHER -> error_codes.E1000

\* CarbideParserError::code
parser_code(e) ==
    CASE e.kind = "UnexpectedEOF"           -> error_codes.E1001
      [] e.kind = "UnexpectedToken"         -> error_codes.E1002
      [] e.kind = "ExpectedIdentifier"      -> error_codes.E1010
      [] e.kind = "ExpectedExpression"      -> error_codes.E1011
      [] e.kind = "TooManyParameters"       -> error_codes.E1020
      [] e.kind = "TooManyArguments"        -> error_codes.E1021
      [] e.kind = "InvalidAssignmentTarget" -> error_codes.E1030
      [] e.kind = "BreakOutsideLoop"        -> error_codes.E1040
      [] e.kind = "ContinueOutsideLoop"     -> error_codes.E1041
      [] e.kind = "ReturnOutsideFunction"   -> error_codes.E1042
      [] OTHER -> error_codes.E1000

\* C32: the code of every lexer error kind is below 1000 and the code of every
\* parser error kind is 1000 or above, so no lexer kind shares a code with a
\* parser kind; in particular every diagnostic lex() has collected carries a code
\* below 1000 and every diagnostic parse() has collected a code of 1000 or above.
C32_DisjointCodes ==
    /\ \A i \in 1..Len(errors) :
          errors[i].kind \in LexerErrorKinds /\ lexer_code(errors[i]) < 1000
    /\ \A i \in 1..Len(perrors) :
          perrors[i].kind \in ParserErrorKinds /\ parser_code(perrors[i]) >= 1000
    /\ \A k \in LexerErrorKinds : lexer_code([kind |-> k]) < 1000
    /\ \A k \in ParserErrorKinds : parser_code([kind |-> k]) >= 1000
    /\ \A k \in LexerErrorKinds : \A q \in ParserErrorKinds :
          lexer_code([kind |-> k]) # parser_code([kind |-> q])

\* the parser has reported an end-of-input diagnostic, whose kind has the name of
\* a lexer kind
C32_Witness ==
    /\ ppc = "done"
    /\ \E i \in 1..Len(perrors) :
          perrors[i].kind = "UnexpectedEOF" /\ parser_code(perrors[i]) = 1001

\* ------------------------------------------------------------------------
\* Determinism
\* ------------------------------------------------------------------------

\* C33: the result of a run is a function of its input alone: when lex() has
\* returned, its token list and its diagnostic list are the ones every fresh
\* lexer produces from the same text, and when parse() has ended, every fresh
\* parser run on the same token list ends the same way, with the same AST and
\* the same diagnostic list.
C33_Deterministic ==
    /\ pc = "done" =>
          /\ tokens = lex(src).tokens
          /\ errors = lex(src).errors
    /\ ppc = "done" =>
          \A ub \in UBOutcomes :
              /\ parse(ptokens, ub).st = "ok"
              /\ parse(ptokens, ub).ast = ast
              /\ parse(ptokens, ub).errors = perrors
    /\ ppc = "aborted" =>
          \A ub \in UBOutcomes : parse(ptokens, ub).st = "abort"

\* ------------------------------------------------------------------------
\* Recovery after a literal that was read to its end
\* ------------------------------------------------------------------------

\* C34: when the text is a malformed literal that the lexer reads to its end
\* (a bare '0x' or '0b', an overflowing integer, a closed string with an
\* unmatched '{') followed by ';', lex() reports one diagnostic and still emits
\* the Semicolon token that starts at the very next character.
C34_NextTokenEmitted ==
    (/\ pc = "done"
     /\ Len(frags) >= 2
     /\ frags[1] \in MalformedLiterals
     /\ frags[2] = <<";">>) =>
        /\ Len(errors) = 1
        /\ \E i \in 1..Len(tokens) :
              /\ tokens[i].token_type.tag = "Semicolon"
              /\ tokens[i].span.start = Len(frags[1])

\* ------------------------------------------------------------------------
\* The cursor
\* ------------------------------------------------------------------------

\* The two-byte texts after which the lexer adds 2 to pos
AsciiPairs == { LineComment, CommentOpen, CommentClose, <<"0", "x">>, <<"0", "b">> }

\* C35: pos stays within 0..len(text) and on a character boundary, and so does
\* every offset the lexer has recorded in a token or a diagnostic; wherever one
\* of the two-byte texts that let the lexer add 2 to pos is matched at a
\* character boundary, the two bytes there are that ASCII pair and the offset
\* two bytes further is again a boundary within the text; and pos never
\* decreases from one step to the next.
C35_CursorInBounds ==
    /\ [](/\ is_char_boundary(src, pos)
          /\ \A i \in 1..Len(tokens) :
                /\ is_char_boundary(src, tokens[i].span.start)
                /\ is_char_boundary(src, tokens[i].span.end)
                /\ tokens[i].span.start <= tokens[i].span.end
                /\ tokens[i].span.end <= pos
          /\ \A i \in 1..Len(errors) :
                /\ is_char_boundary(src, errors[i].loc.offset)
                /\ errors[i].loc.offset <= pos
          /\ \A q \in 0..Len(src) : \A pat \in AsciiPairs :
                (is_char_boundary(src, q) /\ starts_with(src, q, pat)) =>
                    /\ src[q + 1] \notin {LeadByte, ContByte}
                    /\ src[q + 2] \notin {LeadByte, ContByte}
                    /\ is_char_boundary(src, q + 2))
    /\ [][pos' >= pos]_vars

\* lex() has returned at the end of a text that holds a two-byte character and,
\* after it, a pair that moved pos by 2
C35_Witness ==
    /\ pc = "done"
    /\ pos = Len(src)
    /\ \E q \in 0..(Len(src) - 1) : \E r \in 0..(Len(src) - 1) :
          /\ src[q + 1] = LeadByte
          /\ q < r
          /\ is_char_boundary(src, r)
          /\ \E pat \in AsciiPairs : starts_with(src, r, pat)

\* ------------------------------------------------------------------------
\* Order of the diagnostics of lex()
\* ------------------------------------------------------------------------

\* C36: the diagnostics of lex() are in source order: the anchor offsets of the
\* list are strictly increasing, and a diagnostic is anchored at or after the
\* end of every token that was emitted before it.
C36_DiagnosticsInSourceOrder ==
    /\ [](\A i \in 1..Len(errors) : \A j \in 1..Len(errors) :
             i < j => errors[i].loc.offset < errors[j].loc.offset)
    /\ [][\A k \in (Len(errors) + 1)..Len(errors') : \A i \in 1..Len(tokens) :
             tokens[i].span.end <= errors'[k].loc.offset]_vars

\* two diagnostics with a token between them
C36_Witness ==
    /\ pc = "done"
    /\ Len(errors) >= 2
    /\ \E i \in 1..Len(tokens) :
          /\ errors[1].loc.offset < tokens[i].span.start
          /\ tokens[i].span.end <= errors[2].loc.offset

\* ------------------------------------------------------------------------
\* The initializer of a let statement
\* ------------------------------------------------------------------------

\* The place after 'let' name [':' type] '=' of the let statement at p
\* (counted in tokens consumed), 0 when there is no such statement there.
InitializerAt(ts, p) ==
    LET tags == TagsOf(ts)
        typed == /\ p + 4 <= Len(ts)
                 /\ SubSeq(tags, p + 3, p + 4) = <<"Colon", "Identifier">>
        eq == IF typed THEN p + 5 ELSE p + 3
    IN  IF /\ eq <= Len(ts)
           /\ SubSeq(tags, p + 1, p + 2) = <<"Let", "Identifier">>
           /\ tags[eq] = "Eq"
        THEN eq
        ELSE 0

\* parse_expression fails at q whatever the build does
InitializerFails(ts, q) ==
    \A ub \in UBOutcomes : descend("parse_expression", ts, q, ub).st # "ok"

\* C37: when the expression after the '=' of a let statement fails to parse, the
\* statement adds exactly one diagnostic, InvalidAssignmentTarget at the
\* location of the token the parser stands on (the end of the last token when
\* none is left), and no statement; the diagnostic of the expression is not
\* reported.
C37_InitializerFailure ==
    [][(/\ ppc = "parsing"
        /\ InitializerAt(ptokens, ppos) > 0
        /\ InitializerFails(ptokens, InitializerAt(ptokens, ppos))) =>
          LET stop == descend("parse_expression", ptokens,
                              InitializerAt(ptokens, ppos), "garbage").pos
              at == IF stop < Len(ptokens) THEN ptokens[stop + 1].end ELSE ptokens[stop].end
          IN  /\ ppc' = "parsing"
              /\ ast' = ast
              /\ perrors' = Append(perrors, [kind |-> "InvalidAssignmentTarget",
                                             expected |-> "", found |-> <<>>,
                                             loc |-> <<at>>])]_vars

\* ------------------------------------------------------------------------
\* Tokens left over in a fragment
\* ------------------------------------------------------------------------

\* C38: a string whose fragment holds an expression followed by more tokens
\* ('a b', 'a 1', 'a;', 'a)') is not accepted: parse() reports a diagnostic
\* and produces no string with the part Expression(a).
C38_LeftoverTokens ==
    (/\ ppc = "done"
     /\ Len(ptokens) = 2
     /\ ptokens[1].token_type.tag = "InterpolatedString"
     /\ ptokens[1].token_type.val \in { <<InterpolationPart(code)>> : code \in LeftoverFragments }
     /\ ptokens[2].token_type.tag = "Semicolon") =>
        /\ Len(perrors) >= 1
        /\ ast = <<>>

\* ------------------------------------------------------------------------
\* A second call on the same lexer or parser
\* ------------------------------------------------------------------------

\* C39: when lex() has returned, the cursor is at the end of the text whatever
\* was reported, so lex() called again on the same lexer returns no token and
\* no diagnostic and lex_strict() called again returns Ok of an empty list;
\* when parse() has returned, the parser is at the end of its tokens, so
\* parse() called again returns an empty AST and no diagnostic.
C39_SecondCall ==
    /\ pc = "done" =>
          /\ pos = Len(src)
          /\ lex_loop(src, cur, <<>>, <<>>) = [tokens |-> <<>>, errors |-> <<>>, c |-> cur]
          /\ strict(lex_loop(src, cur, <<>>, <<>>)) = [ok |-> TRUE, tokens |-> <<>>, err |-> <<>>]
    /\ ppc = "done" =>
          /\ ppos = Len(ptokens)
          /\ \A ub \in UBOutcomes :
                parse_loop(ptokens, ppos, <<>>, <<>>, ub)
                    = [st |-> "ok", pos |-> ppos, ast |-> <<>>, errors |-> <<>>]

\* lex() has returned tokens and diagnostics for a text that does not end in
\* white space
C39_Witness ==
    /\ pc = "done"
    /\ tokens # <<>>
    /\ errors # <<>>
    /\ src[Len(src)] \notin {" ", "\n"}

\* ------------------------------------------------------------------------
\* Where recovery stops
\* ------------------------------------------------------------------------

\* The byte at offset q belongs to a character outside the set at which
\* recovery stops.
OutsideAt(q) ==
    \/ src[q + 1] \in {LeadByte, ContByte}
    \/ ~is_recovery_stop(src[q + 1])

\* a..b-1 is a maximal run of such characters
IsRun(a, b) ==
    /\ a < b
    /\ \A q \in a..(b - 1) : OutsideAt(q)
    /\ a > 0 => ~OutsideAt(a - 1)
    /\ b < Len(src) => ~OutsideAt(b)

AnchoredIn(a, b) == { k \in 1..Len(errors) : errors[k].loc.offset \in a..(b - 1) }

\* A step that records a diagnostic leaves the cursor at the end of the text or
\* on a character of the set.
RecoveryStops ==
    Len(errors') > Len(errors) =>
        \/ pos' = Len(src)
        \/ is_recovery_stop(char_at(src, pos'))

====
